---- MODULE Spec2Model ----
(***************************************************************************)
(* A model of the hydrochess engine core: the GameState with make_move /   *)
(* undo_move (src/src/game.rs), pseudo-legal move generation and attack    *)
(* detection (src/src/moves.rs), the bucketed transposition table          *)
(* (src/src/search/tt.rs), Zobrist keys (src/src/search/zobrist.rs) and    *)
(* static exchange evaluation (src/src/search/see.rs).                     *)
(*                                                                         *)
(* Conventions.  A Coordinate is a pair <<x, y>>.  A Rust Option is a set  *)
(* with at most one element ({} is None).  A Vec whose order and           *)
(* multiplicity do not matter to its readers is a set.  The Board is the   *)
(* function from occupied coordinates to pieces (the HashMap).  A u64      *)
(* Zobrist value is the set of key atoms XORed into it; XOR is symmetric   *)
(* difference, so two values are equal exactly when the same keys occur    *)
(* an odd number of times in both.                                         *)
(***************************************************************************)
EXTENDS Integers, Sequences, FiniteSets, TLC

\* ------------------------------------------------------------------ bounds

\* Longest line of moves kept on the make/undo stack.
MaxPly == 4

\* ----------------------------------------------------------------- helpers

Abs(n) == IF n < 0 THEN -n ELSE n
signum(n) == IF n > 0 THEN 1 ELSE IF n < 0 THEN -1 ELSE 0
MinOf(S) == CHOOSE v \in S : \A w \in S : v <= w
Range(s) == {s[i] : i \in DOMAIN s}
TheOne(s) == CHOOSE v \in s : TRUE

\* Rust's % on i64: the remainder takes the sign of the dividend.
rem(a, b) == IF a >= 0 THEN a % Abs(b) ELSE -((-a) % Abs(b))

U16_MAX == 65535
saturating_sub(n) == IF n > 0 THEN n - 1 ELSE 0
saturating_add(n) == IF n < U16_MAX THEN n + 1 ELSE U16_MAX

\* ------------------------------------------------------- pieces and board

Piece(t, c) == [piece_type |-> t, color |-> c]

opponent(c) == IF c = "White" THEN "Black" ELSE IF c = "Black" THEN "White" ELSE "Neutral"

is_royal(t) == t \in {"King", "RoyalQueen", "RoyalCentaur"}

\* PieceType::from_str(code).unwrap_or(Queen), as make_move uses it.
promo_type_of(code) ==
    CASE code = "q" -> "Queen"
      [] code = "r" -> "Rook"
      [] code = "b" -> "Bishop"
      [] code = "n" -> "Knight"
      [] OTHER -> "Queen"

EmptyBoard == [c \in {} |-> Piece("Void", "Neutral")]

get_piece(board, x, y) == IF <<x, y>> \in DOMAIN board THEN {board[<<x, y>>]} ELSE {}

set_piece(board, x, y, p) ==
    [c \in (DOMAIN board) \cup {<<x, y>>} |-> IF c = <<x, y>> THEN p ELSE board[c]]

remove_piece(board, x, y) == [c \in (DOMAIN board) \ {<<x, y>>} |-> board[c]]

BoardOf(placed) == [c \in {e[1] : e \in placed} |-> (CHOOSE e \in placed : e[1] = c)[2]]

get_piece_value(t) ==
    CASE t \in {"Void", "Obstacle"} -> 0
      [] t = "Pawn" -> 100
      [] t = "Knight" -> 280
      [] t = "Bishop" -> 340
      [] t = "Rook" -> 620
      [] t \in {"Queen", "RoyalQueen"} -> 1100
      [] t \in {"King", "Guard"} -> 280
      [] t = "Camel" -> 270
      [] t \in {"Giraffe", "Zebra"} -> 260
      [] t = "Knightrider" -> 700
      [] t = "Amazon" -> 1400
      [] t = "Hawk" -> 600
      [] t = "Chancellor" -> 1000
      [] t = "Archbishop" -> 900
      [] t = "Centaur" -> 550
      [] t = "RoyalCentaur" -> 620
      [] t = "Rose" -> 450
      [] t = "Huygen" -> 355

RECURSIVE SumOver(_, _)
SumOver(f, S) ==
    IF S = {} THEN 0
    ELSE LET c == CHOOSE c \in S : TRUE IN f[c] + SumOver(f, S \ {c})

\* The sum over the pieces of the board, taken kind by kind.
calculate_initial_material(board) ==
    SumOver([p \in Range(board) |->
                Cardinality({c \in DOMAIN board : board[c] = p})
                  * (IF p.color = "White" THEN get_piece_value(p.piece_type)
                     ELSE -get_piece_value(p.piece_type))],
            Range(board))

recompute_count(board, color) == Cardinality({c \in DOMAIN board : board[c].color = color})

\* ---------------------------------------------------------------- zobrist

Xor(a, b) == (a \ b) \cup (b \ a)

NoKey == {}

ZOBRIST_BOUND == 150
ZOBRIST_BUCKETS == 8

normalize_coord(coord) ==
    IF Abs(coord) <= ZOBRIST_BOUND THEN coord
    ELSE signum(coord) * ZOBRIST_BOUND
         + rem(coord - signum(coord) * ZOBRIST_BOUND, ZOBRIST_BUCKETS)

hash_coordinate(x, y) == {<<"coord", "", "", normalize_coord(x), normalize_coord(y)>>}

PIECE_KEYS(t, c) == {<<"piece", t, c, 0, 0>>}
SIDE_KEY == {<<"side", "", "", 0, 0>>}
CASTLING_KEY_MIXER == {<<"castling", "", "", 0, 0>>}
EN_PASSANT_KEY_MIXER == {<<"en_passant", "", "", 0, 0>>}

piece_key(t, c, x, y) == Xor(hash_coordinate(x, y), PIECE_KEYS(t, c))
special_right_key(coord) == Xor(hash_coordinate(coord[1], coord[2]), CASTLING_KEY_MIXER)
en_passant_key(x, y) == Xor(hash_coordinate(x, y), EN_PASSANT_KEY_MIXER)

\* The XOR of the keys key[c], c in S.
XorAll(key, S) ==
    {a \in UNION {key[c] : c \in S} : Cardinality({c \in S : a \in key[c]}) % 2 = 1}


\* ------------------------------------------------------------------ state

VARIABLES
    game,       \* the GameState (src/src/game.rs), plus the hash field tt.rs reads
    world,      \* the world-border statics COORD_MIN_X .. COORD_MAX_Y (moves.rs)
    line,       \* the moves made and not yet undone, newest last: each entry is
                \* the Move, the UndoMove make_move returned, and the GameState
                \* make_move was called on
    tt,         \* the TranspositionTable (src/src/search/tt.rs)
    tt_ops,     \* how many operations the table has gone through
    see,        \* the last static exchange evaluation: the move, the threshold
                \* and what static_exchange_eval_impl and see_ge returned
    picker      \* a StagedMoveGen (src/src/search/movegen.rs) with the Searcher
                \* tables it reads, and the moves next() has returned so far

vars == <<game, world, line, tt, tt_ops, see, picker>>

\* ---------------------------------------------------------- move generation

in_bounds(x, y) ==
    /\ x >= world.min_x /\ x <= world.max_x
    /\ y >= world.min_y /\ y <= world.max_y

Move(from, to, piece) ==
    [from |-> from, to |-> to, piece |-> piece, promotion |-> {}, rook_coord |-> {}]

is_enemy_piece(piece, our_color) == piece.color # our_color /\ piece.piece_type # "Void"

\* The first occupied square at 1..limit steps of (dx, dy) from (x, y), if any.
first_on_ray(board, x, y, dx, dy, limit) ==
    LET ks == {k \in 1..limit : <<x + dx * k, y + dy * k>> \in DOMAIN board}
    IN IF ks = {} THEN {} ELSE {<<x + dx * MinOf(ks), y + dy * MinOf(ks)>>}

\* The nearest occupied square on the ray of (dx, dy) from (x, y), at any
\* distance (what the sorted SpatialIndices vectors give).
nearest_on_line(board, x, y, dx, dy) ==
    LET on == {c \in DOMAIN board :
                  \E k \in 1..(Abs(c[1] - x) + Abs(c[2] - y)) :
                      c = <<x + dx * k, y + dy * k>>}
    IN IF on = {} THEN {}
       ELSE {CHOOSE c \in on : \A e \in on :
                Abs(c[1] - x) + Abs(c[2] - y) <= Abs(e[1] - x) + Abs(e[2] - y)}

KnightOffsets == {<<1, 2>>, <<1, -2>>, <<2, 1>>, <<2, -1>>, <<-1, 2>>, <<-1, -2>>, <<-2, 1>>, <<-2, -1>>}
KingOffsets == {<<0, 1>>, <<0, -1>>, <<1, 0>>, <<-1, 0>>, <<1, 1>>, <<1, -1>>, <<-1, 1>>, <<-1, -1>>}
OrthoDirs == {<<1, 0>>, <<-1, 0>>, <<0, 1>>, <<0, -1>>}
DiagDirs == {<<1, 1>>, <<1, -1>>, <<-1, 1>>, <<-1, -1>>}

LeaperOffsets(m, n) ==
    {<<-n, m>>, <<-m, n>>, <<m, n>>, <<n, m>>, <<-n, -m>>, <<-m, -n>>, <<m, -n>>, <<n, -m>>}

CompassOffsets(dist) ==
    {<<-dist, dist>>, <<0, dist>>, <<dist, dist>>, <<-dist, 0>>, <<dist, 0>>,
     <<-dist, -dist>>, <<0, -dist>>, <<dist, -dist>>}

HawkOffsets == CompassOffsets(2) \cup CompassOffsets(3)

leaper_checks ==
    { [offsets |-> KnightOffsets,
       types |-> {"Knight", "Chancellor", "Archbishop", "Amazon", "Centaur", "RoyalCentaur"}],
      [offsets |-> LeaperOffsets(1, 3), types |-> {"Camel"}],
      [offsets |-> LeaperOffsets(1, 4), types |-> {"Giraffe"}],
      [offsets |-> LeaperOffsets(2, 3), types |-> {"Zebra"}],
      [offsets |-> KingOffsets, types |-> {"King", "Guard", "Centaur", "RoyalCentaur"}],
      [offsets |-> HawkOffsets, types |-> {"Hawk"}] }

ortho_types == {"Rook", "Queen", "Chancellor", "Amazon", "RoyalQueen"}
diag_types == {"Bishop", "Queen", "Archbishop", "Amazon", "RoyalQueen"}

RAY_FALLBACK_LIMIT == 50
KNIGHTRIDER_SCAN_LIMIT == 25

\* check_ray's closest piece in one direction: through the indices when the
\* target square is itself occupied and has a neighbour on that side of its
\* line, and by the bounded fallback scan otherwise.
closest_piece_on_ray(board, target, dx, dy, has_indices) ==
    LET via == IF has_indices /\ target \in DOMAIN board
               THEN nearest_on_line(board, target[1], target[2], dx, dy)
               ELSE {}
    IN IF via # {} THEN via
       ELSE first_on_ray(board, target[1], target[2], dx, dy, RAY_FALLBACK_LIMIT)

check_ray(board, target, attacker_color, dirs, valid_types, has_indices) ==
    \E d \in dirs :
        \E c \in closest_piece_on_ray(board, target, d[1], d[2], has_indices) :
            board[c].color = attacker_color /\ board[c].piece_type \in valid_types

\* is_square_attacked, without its scans for Huygen and Rose attackers (no
\* position that tests an attack holds either).
is_square_attacked(board, target, attacker_color, has_indices) ==
    \/ \E lc \in leaper_checks : \E o \in lc.offsets :
          \E p \in get_piece(board, target[1] + o[1], target[2] + o[2]) :
              p.color = attacker_color /\ p.piece_type \in lc.types
    \/ LET pawn_dir == IF attacker_color = "White" THEN 1
                       ELSE IF attacker_color = "Black" THEN -1 ELSE 0
       IN \E pawn_dx \in {-1, 1} :
             \E p \in get_piece(board, target[1] + pawn_dx, target[2] - pawn_dir) :
                 p.color = attacker_color /\ p.piece_type = "Pawn"
    \/ check_ray(board, target, attacker_color, OrthoDirs, ortho_types, has_indices)
    \/ check_ray(board, target, attacker_color, DiagDirs, diag_types, has_indices)
    \/ \E d \in KnightOffsets :
          \E c \in first_on_ray(board, target[1], target[2], d[1], d[2], KNIGHTRIDER_SCAN_LIMIT) :
              board[c].color = attacker_color /\ board[c].piece_type = "Knightrider"

DefaultPromotionPieces == <<"q", "r", "b", "n">>

promotion_ranks_of(game_rules, color) ==
    IF game_rules.promotion_ranks # {}
    THEN (IF color = "White" THEN TheOne(game_rules.promotion_ranks).white
          ELSE IF color = "Black" THEN TheOne(game_rules.promotion_ranks).black
          ELSE {})
    ELSE (IF color = "White" THEN {8} ELSE IF color = "Black" THEN {1} ELSE {})

promotion_pieces_of(game_rules) ==
    IF game_rules.promotions_allowed # {}
    THEN Range(TheOne(game_rules.promotions_allowed))
    ELSE Range(DefaultPromotionPieces)

add_pawn_move_inner(from, to_x, to_y, piece, promotion_ranks, promotion_pieces) ==
    IF to_y \in promotion_ranks
    THEN {[Move(from, <<to_x, to_y>>, piece) EXCEPT !.promotion = {promo}] :
             promo \in promotion_pieces}
    ELSE {Move(from, <<to_x, to_y>>, piece)}

generate_pawn_moves(board, from, piece, special_rights, en_passant, game_rules) ==
    IF piece.color = "Neutral" THEN {}
    ELSE
    LET direction == IF piece.color = "White" THEN 1 ELSE -1
        ranks == promotion_ranks_of(game_rules, piece.color)
        promos == promotion_pieces_of(game_rules)
        to_x == from[1]
        to_y == from[2] + direction
        to_y_2 == from[2] + direction * 2
        forward_blocked == get_piece(board, to_x, to_y) # {}
        forward ==
            IF forward_blocked THEN {}
            ELSE add_pawn_move_inner(from, to_x, to_y, piece, ranks, promos)
                 \cup (IF from \in special_rights /\ get_piece(board, to_x, to_y_2) = {}
                       THEN {Move(from, <<to_x, to_y_2>>, piece)} ELSE {})
        capture(dx) ==
            LET capture_x == from[1] + dx
                capture_y == from[2] + direction
                target == get_piece(board, capture_x, capture_y)
            IN IF target # {}
               THEN (IF is_enemy_piece(TheOne(target), piece.color)
                     THEN add_pawn_move_inner(from, capture_x, capture_y, piece, ranks, promos)
                     ELSE {})
               ELSE (IF \E ep \in en_passant : ep.square = <<capture_x, capture_y>>
                     THEN {Move(from, <<capture_x, capture_y>>, piece)} ELSE {})
    IN forward \cup capture(-1) \cup capture(1)

\* The squares strictly between from and the partner on from's rank are empty.
castling_path_clear(board, from, coord) ==
    LET dir == IF coord[1] - from[1] > 0 THEN 1 ELSE -1
    IN \A x \in (IF dir = 1 THEN (from[1] + 1)..(coord[1] - 1)
                 ELSE (coord[1] + 1)..(from[1] - 1)) :
           get_piece(board, x, from[2]) = {}

castling_partner_ok(board, piece, coord) ==
    \E target_piece \in get_piece(board, coord[1], coord[2]) :
        /\ target_piece.color = piece.color
        /\ target_piece.piece_type # "Pawn"
        /\ ~is_royal(target_piece.piece_type)

\* castling_not_attacked without the test of the landing square.
castling_not_attacked_no_landing(board, from, piece, dir, has_indices) ==
    LET opp == opponent(piece.color)
    IN /\ ~is_square_attacked(board, from, opp, has_indices)
       /\ ~is_square_attacked(board, <<from[1] + dir, from[2]>>, opp, has_indices)

castling_not_attacked(board, from, piece, dir, has_indices) ==
    LET opp == opponent(piece.color)
    IN /\ ~is_square_attacked(board, from, opp, has_indices)
       /\ ~is_square_attacked(board, <<from[1] + dir, from[2]>>, opp, has_indices)
       /\ ~is_square_attacked(board, <<from[1] + dir * 2, from[2]>>, opp, has_indices)

generate_castling_moves(board, from, piece, special_rights, has_indices) ==
    IF from \notin special_rights THEN {}
    ELSE
    {[Move(from, <<from[1] + (IF coord[1] - from[1] > 0 THEN 2 ELSE -2), from[2]>>, piece)
         EXCEPT !.rook_coord = {coord}] :
       coord \in {c \in special_rights :
                    /\ castling_partner_ok(board, piece, c)
                    /\ c[2] - from[2] = 0
                    /\ castling_path_clear(board, from, c)
                    /\ castling_not_attacked(board, from, piece,
                                             IF c[1] - from[1] > 0 THEN 1 ELSE -1,
                                             has_indices)}}

\* compass and leaper moves: a fixed set of offsets, each landing in bounds on
\* an empty square or an enemy piece.
generate_offset_moves(board, from, piece, offsets) ==
    {Move(from, <<from[1] + o[1], from[2] + o[2]>>, piece) :
       o \in {o \in offsets :
                /\ in_bounds(from[1] + o[1], from[2] + o[2])
                /\ \A target \in get_piece(board, from[1] + o[1], from[2] + o[2]) :
                       is_enemy_piece(target, piece.color)}}

generate_compass_moves(board, from, piece, distance) ==
    generate_offset_moves(board, from, piece, CompassOffsets(distance))

generate_leaper_moves(board, from, piece, m, n) ==
    generate_offset_moves(board, from, piece, LeaperOffsets(m, n))

WIGGLE_ROOM == 2
FRIEND_WIGGLE_ROOM == 1
MAX_SLIDE_CHECK == 50

enemy_positions_of(board, color) == {c \in DOMAIN board : is_enemy_piece(board[c], color)}

\* has_clear_enemy_row / _col / _diag: scanning from the square along each of
\* the given directions, the first piece met in some direction is an enemy.
has_clear_enemy(board, color, sq, dirs) ==
    \E dir \in dirs :
        \E c \in first_on_ray(board, sq[1], sq[2], dir[1], dir[2], MAX_SLIDE_CHECK) :
            is_enemy_piece(board[c], color)

has_clear_enemy_row(board, color, sq) == has_clear_enemy(board, color, sq, {<<-1, 0>>, <<1, 0>>})
has_clear_enemy_col(board, color, sq) == has_clear_enemy(board, color, sq, {<<0, -1>>, <<0, 1>>})
has_clear_enemy_diag(board, color, sq) == has_clear_enemy(board, color, sq, DiagDirs)

\* The on_ray test of the blocker search, for the ray (dir_x, dir_y) from from.
slide_on_ray(from, c, dir_x, dir_y) ==
    LET dx == c[1] - from[1]
        dy == c[2] - from[2]
    IN IF dir_x = 0 THEN dx = 0 /\ signum(dy) = signum(dir_y)
       ELSE IF dir_y = 0 THEN dy = 0 /\ signum(dx) = signum(dir_x)
       ELSE /\ Abs(dx) = Abs(dy)
            /\ signum(dx) = signum(dir_x)
            /\ signum(dy) = signum(dir_y)

slide_dist(from, c, dir_x) ==
    IF dir_x = 0 THEN Abs(c[2] - from[2]) ELSE Abs(c[1] - from[1])

\* The closest blocker of the ray, as the blocker search finds it: {} or the
\* one coordinate of least distance among those passing the on_ray test.
slide_closest(board, from, dir_x, dir_y) ==
    LET on == {c \in DOMAIN board :
                  slide_on_ray(from, c, dir_x, dir_y) /\ slide_dist(from, c, dir_x) > 0}
    IN IF on = {} THEN {}
       ELSE {CHOOSE c \in on :
                \A e \in on : slide_dist(from, c, dir_x) <= slide_dist(from, e, dir_x)}

slide_aligned(board, from, piece, sq, dir_x, dir_y, can_horiz, can_vert, can_diag) ==
    LET color == piece.color
        enemies == enemy_positions_of(board, color)
        enemy_rows == {e[2] : e \in enemies}
        enemy_cols == {e[1] : e \in enemies}
        enemy_diag1 == {e[1] - e[2] : e \in enemies}
        enemy_diag2 == {e[1] + e[2] : e \in enemies}
        row == can_horiz /\ sq[2] \in enemy_rows /\ has_clear_enemy_row(board, color, sq)
        col == can_vert /\ sq[1] \in enemy_cols /\ has_clear_enemy_col(board, color, sq)
        diag == /\ can_diag
                /\ (sq[1] - sq[2] \in enemy_diag1 \/ sq[1] + sq[2] \in enemy_diag2)
                /\ has_clear_enemy_diag(board, color, sq)
        other_diag ==
            /\ can_diag
            /\ \/ (sq[1] - sq[2] \in enemy_diag1 /\ sq[1] - sq[2] # from[1] - from[2])
               \/ (sq[1] + sq[2] \in enemy_diag2 /\ sq[1] + sq[2] # from[1] + from[2])
            /\ has_clear_enemy_diag(board, color, sq)
    IN IF dir_x = 0 THEN row \/ diag
       ELSE IF dir_y = 0 THEN col \/ diag
       ELSE row \/ col \/ other_diag

\* Wiggle room near a friendly piece projected onto the ray (orthogonal rays
\* only).
slide_friend_wiggle(board, from, piece, sq, d, dir_x, dir_y) ==
    \E f \in {c \in DOMAIN board : board[c].color = piece.color /\ c # from} :
        IF dir_x = 0
        THEN /\ Abs(f[1] - sq[1]) <= FRIEND_WIGGLE_ROOM
             /\ Abs(d - Abs(f[2] - from[2])) <= FRIEND_WIGGLE_ROOM
        ELSE IF dir_y = 0
        THEN /\ Abs(f[2] - sq[2]) <= FRIEND_WIGGLE_ROOM
             /\ Abs(d - Abs(f[1] - from[1])) <= FRIEND_WIGGLE_ROOM
        ELSE FALSE

\* The moves of one ray of generate_sliding_moves.
slide_ray_moves(board, from, piece, dir_x, dir_y, can_horiz, can_vert, can_diag) ==
    LET closest == slide_closest(board, from, dir_x, dir_y)
        has_blocker == closest # {}
        closest_dist == IF has_blocker THEN slide_dist(from, TheOne(closest), dir_x) ELSE 0
        closest_is_enemy == has_blocker /\ is_enemy_piece(board[TheOne(closest)], piece.color)
        effective_max == IF has_blocker THEN closest_dist ELSE MAX_SLIDE_CHECK
        sq(d) == <<from[1] + dir_x * d, from[2] + dir_y * d>>
        at_blocker(d) == has_blocker /\ d = closest_dist
        wiggled(d) ==
            \/ ~at_blocker(d) /\ d <= WIGGLE_ROOM
            \/ ~at_blocker(d) /\ slide_friend_wiggle(board, from, piece, sq(d), d, dir_x, dir_y)
            \/ /\ has_blocker
               /\ d >= closest_dist - (IF closest_is_enemy THEN WIGGLE_ROOM
                                       ELSE FRIEND_WIGGLE_ROOM)
               /\ d <= closest_dist
        reached(d) ==
            /\ \A e \in 1..d : in_bounds(sq(e)[1], sq(e)[2])
            /\ ~(at_blocker(d) /\ ~closest_is_enemy)
        interesting(d) ==
            \/ at_blocker(d)
            \/ slide_aligned(board, from, piece, sq(d), dir_x, dir_y,
                             can_horiz, can_vert, can_diag)
            \/ wiggled(d)
    IN {Move(from, sq(d), piece) : d \in {d \in 1..effective_max : reached(d) /\ interesting(d)}}

generate_sliding_moves(board, from, piece, directions) ==
    LET can_horiz == \E dr \in directions : dr[2] = 0 /\ dr[1] # 0
        can_vert == \E dr \in directions : dr[1] = 0 /\ dr[2] # 0
        can_diag == \E dr \in directions : dr[1] # 0 /\ dr[2] # 0
    IN UNION {slide_ray_moves(board, from, piece, dr[1] * sign, dr[2] * sign,
                              can_horiz, can_vert, can_diag) :
                 dr \in directions, sign \in {1, -1}}

\* utils::is_prime_i64.
is_prime_i64(n) ==
    LET a == Abs(n) IN a >= 2 /\ \A d \in 2..(a - 1) : a % d # 0

\* The step limits of generate_huygen_moves: how far it scans for a blocker
\* it has not found, and how far it generates without one.
HUYGEN_NO_BLOCKER_LIMIT == 100
HUYGEN_SCAN_LIMIT == 50

\* generate_huygen_moves: along each rank and file direction the squares at
\* a prime distance, up to the nearest piece at a prime distance, which is
\* taken unless it is of the mover's colour or a Void.
generate_huygen_moves(board, from, piece) ==
    UNION {LET at(s) == <<from[1] + dir[1] * s, from[2] + dir[2] * s>>
               dist(c) == Abs(c[1] - from[1]) + Abs(c[2] - from[2])
               blockers == {c \in DOMAIN board : /\ c # from
                                                  /\ c = at(dist(c))
                                                  /\ is_prime_i64(dist(c))}
               closest == {c \in blockers : \A d \in blockers : dist(c) <= dist(d)}
               limit == IF closest = {} THEN HUYGEN_NO_BLOCKER_LIMIT ELSE dist(TheOne(closest))
               scan_limit == IF closest = {} THEN HUYGEN_SCAN_LIMIT ELSE limit
               closest_piece_color ==
                   IF closest = {} THEN "None"
                   ELSE IF board[TheOne(closest)].piece_type = "Void" THEN piece.color
                   ELSE board[TheOne(closest)].color
           IN {Move(from, at(s), piece) :
                  s \in {s \in 2..scan_limit :
                           /\ is_prime_i64(s)
                           /\ IF s = limit /\ closest # {}
                              THEN closest_piece_color # piece.color
                              ELSE s < limit}} :
              dir \in {<<1, 0>>, <<-1, 0>>, <<0, 1>>, <<0, -1>>}}

\* The eight knight steps in the order generate_rose_moves turns through them.
RoseSteps ==
    <<<<-2, -1>>, <<-1, -2>>, <<1, -2>>, <<2, -1>>, <<2, 1>>, <<1, 2>>, <<-1, 2>>, <<-2, 1>>>>

\* The k-th square of the rose circle that starts with step start_idx (from
\* 0) and turns in direction.
rose_square(from, start_idx, direction, k) ==
    LET step(j) == RoseSteps[((start_idx + direction * j + 8) % 8) + 1]
        sum[j \in 0..k] == IF j = 0 THEN from
                           ELSE <<sum[j - 1][1] + step(j - 1)[1], sum[j - 1][2] + step(j - 1)[2]>>
    IN sum[k]

\* generate_rose_moves: up to seven squares along each of the sixteen
\* circles, stopping at the first piece, which is taken if is_enemy_piece.
generate_rose_moves(board, from, piece) ==
    {Move(from, rose_square(from, sd[1], sd[2], k), piece) :
        <<sd, k>> \in {sk \in ((0..7) \X {1, -1}) \X (1..7) :
            /\ \A j \in 1..(sk[2] - 1) :
                  rose_square(from, sk[1][1], sk[1][2], j) \notin DOMAIN board
            /\ LET c == rose_square(from, sk[1][1], sk[1][2], sk[2])
               IN c \in DOMAIN board => is_enemy_piece(board[c], piece.color)}}

RookDirs == {<<1, 0>>, <<0, 1>>}
BishopDirs == {<<1, 1>>, <<1, -1>>}
KnightriderDirs == {<<1, 2>>, <<1, -2>>, <<2, 1>>, <<2, -1>>}

get_pseudo_legal_moves_for_piece(board, piece, from, special_rights, en_passant, has_indices, game_rules) ==
    LET t == piece.piece_type
        leap(m, n) == generate_leaper_moves(board, from, piece, m, n)
        compass(dist) == generate_compass_moves(board, from, piece, dist)
        slide(dirs) == generate_sliding_moves(board, from, piece, dirs)
        castle == generate_castling_moves(board, from, piece, special_rights, has_indices)
    IN CASE t \in {"Void", "Obstacle"} -> {}
         [] t = "Pawn" -> generate_pawn_moves(board, from, piece, special_rights,
                                              en_passant, game_rules)
         [] t = "Knight" -> leap(1, 2)
         [] t = "Hawk" -> compass(2) \cup compass(3)
         [] t = "King" -> compass(1) \cup castle
         [] t = "Guard" -> compass(1)
         [] t = "Rook" -> slide(RookDirs)
         [] t = "Bishop" -> slide(BishopDirs)
         [] t \in {"Queen", "RoyalQueen"} -> slide(RookDirs) \cup slide(BishopDirs)
         [] t = "Chancellor" -> leap(1, 2) \cup slide(RookDirs)
         [] t = "Archbishop" -> leap(1, 2) \cup slide(BishopDirs)
         [] t = "Amazon" -> leap(1, 2) \cup slide(RookDirs) \cup slide(BishopDirs)
         [] t = "Camel" -> leap(1, 3)
         [] t = "Giraffe" -> leap(1, 4)
         [] t = "Zebra" -> leap(2, 3)
         [] t = "Knightrider" -> slide(KnightriderDirs)
         [] t = "Centaur" -> compass(1) \cup leap(1, 2)
         [] t = "RoyalCentaur" -> compass(1) \cup leap(1, 2) \cup castle
         [] t = "Huygen" -> generate_huygen_moves(board, from, piece)
         [] t = "Rose" -> generate_rose_moves(board, from, piece)
         [] OTHER -> {}

\* get_legal_moves: the pseudo-legal moves of every piece of the side to move
\* (the indices are always built and passed here).
get_legal_moves(board, turn, special_rights, en_passant, game_rules) ==
    UNION {get_pseudo_legal_moves_for_piece(board, board[c], c, special_rights,
                                            en_passant, TRUE, game_rules) :
              c \in {c \in DOMAIN board : board[c].color = turn /\ board[c].color # "Neutral"}}

\* -------------------------------------------------------------- GameState

\* GameState::new(): the empty game.  hash is the incrementally kept position
\* hash that generate_hash returns.
NewGame ==
    [board |-> EmptyBoard, turn |-> "White", special_rights |-> {}, en_passant |-> {},
     halfmove_clock |-> 0, fullmove_number |-> 1, material_score |-> 0,
     game_rules |-> [promotion_ranks |-> {}, promotions_allowed |-> {}],
     hash_stack |-> <<>>, null_moves |-> 0,
     white_piece_count |-> 0, black_piece_count |-> 0, hash |-> NoKey]

generate_hash(g) == g.hash

EnPassantState(square, pawn_square) == [square |-> square, pawn_square |-> pawn_square]

en_passant_hash(en_passant) ==
    IF en_passant = {} THEN NoKey
    ELSE en_passant_key(TheOne(en_passant).square[1], TheOne(en_passant).square[2])

piece_hash(p, c) == piece_key(p.piece_type, p.color, c[1], c[2])

\* The material and piece-count bookkeeping of one captured piece: sign is 1
\* when make_move takes it off and -1 when undo_move puts it back.
capture_material(material, captured, sign) ==
    IF captured.color = "White" THEN material - sign * get_piece_value(captured.piece_type)
    ELSE material + sign * get_piece_value(captured.piece_type)

capture_count(count, color, captured, sign) ==
    IF (captured.color = "White") = (color = "White")
    THEN (IF sign = 1 THEN saturating_sub(count) ELSE saturating_add(count))
    ELSE count

promotion_material(material, color, promo_val) ==
    IF color = "White" THEN material - get_piece_value("Pawn") + promo_val
    ELSE material + get_piece_value("Pawn") - promo_val

make_move_removed_rights(special_rights, m, is_capture) ==
    (IF m.from \in special_rights THEN {m.from} ELSE {})
    \cup (IF is_capture /\ m.to \in special_rights THEN {m.to} ELSE {})

\* GameState::make_move: the state after the move and the UndoMove returned.
make_move(g, m) ==
    LET piece == g.board[m.from]
        b1 == remove_piece(g.board, m.from[1], m.from[2])
        captured_piece == get_piece(b1, m.to[1], m.to[2])
        is_capture == captured_piece # {}
        mat1 == IF is_capture THEN capture_material(g.material_score, TheOne(captured_piece), 1)
                ELSE g.material_score
        wc1 == IF is_capture THEN capture_count(g.white_piece_count, "White", TheOne(captured_piece), 1)
               ELSE g.white_piece_count
        bc1 == IF is_capture THEN capture_count(g.black_piece_count, "Black", TheOne(captured_piece), 1)
               ELSE g.black_piece_count
        h1 == Xor(Xor(g.hash, piece_hash(piece, m.from)),
                  IF is_capture THEN piece_hash(TheOne(captured_piece), m.to) ELSE NoKey)
        is_ep_capture ==
            /\ piece.piece_type = "Pawn"
            /\ \E ep \in g.en_passant :
                  m.to = ep.square /\ get_piece(b1, ep.pawn_square[1], ep.pawn_square[2]) # {}
        pawn_square == IF is_ep_capture THEN TheOne(g.en_passant).pawn_square ELSE m.to
        b2 == IF is_ep_capture THEN remove_piece(b1, pawn_square[1], pawn_square[2]) ELSE b1
        mat2 == IF is_ep_capture THEN capture_material(mat1, b1[pawn_square], 1) ELSE mat1
        wc2 == IF is_ep_capture THEN capture_count(wc1, "White", b1[pawn_square], 1) ELSE wc1
        bc2 == IF is_ep_capture THEN capture_count(bc1, "Black", b1[pawn_square], 1) ELSE bc1
        h2 == IF is_ep_capture THEN Xor(h1, piece_hash(b1[pawn_square], pawn_square)) ELSE h1
        mat3 == IF m.promotion # {}
                THEN promotion_material(mat2, piece.color,
                                        get_piece_value(promo_type_of(TheOne(m.promotion))))
                ELSE mat2
        removed == make_move_removed_rights(g.special_rights, m, is_capture)
        h3 == Xor(h2, XorAll([c \in removed |-> special_right_key(c)], removed))
        is_castling ==
            /\ piece.piece_type = "King"
            /\ Abs(m.to[1] - m.from[1]) > 1
            /\ \E rc \in m.rook_coord : get_piece(b2, rc[1], rc[2]) # {}
        rook_coord == IF is_castling THEN TheOne(m.rook_coord) ELSE m.from
        rook_to == <<m.from[1] + (IF m.to[1] - m.from[1] > 0 THEN 1 ELSE -1), m.from[2]>>
        b3 == IF is_castling
              THEN set_piece(remove_piece(b2, rook_coord[1], rook_coord[2]),
                             rook_to[1], rook_to[2], b2[rook_coord])
              ELSE b2
        h4 == IF is_castling
              THEN Xor(Xor(h3, piece_hash(b2[rook_coord], rook_coord)),
                       piece_hash(b2[rook_coord], rook_to))
              ELSE h3
        final_piece == IF m.promotion # {}
                       THEN Piece(promo_type_of(TheOne(m.promotion)), piece.color)
                       ELSE piece
        b4 == set_piece(b3, m.to[1], m.to[2], final_piece)
        dy == m.to[2] - m.from[2]
        new_en_passant ==
            IF piece.piece_type = "Pawn" /\ Abs(dy) = 2
            THEN {EnPassantState(<<m.from[1], m.from[2] + signum(dy)>>, m.to)}
            ELSE {}
        h5 == Xor(Xor(Xor(Xor(h4, piece_hash(final_piece, m.to)),
                          en_passant_hash(g.en_passant)),
                      en_passant_hash(new_en_passant)),
                  SIDE_KEY)
    IN [game |->
          [g EXCEPT !.hash_stack = Append(g.hash_stack, generate_hash(g)),
                    !.board = b4,
                    !.material_score = mat3,
                    !.white_piece_count = wc2,
                    !.black_piece_count = bc2,
                    !.special_rights = g.special_rights \ removed,
                    !.en_passant = new_en_passant,
                    !.halfmove_clock =
                        IF piece.piece_type = "Pawn" \/ is_capture \/ is_ep_capture
                        THEN 0 ELSE g.halfmove_clock + 1,
                    !.fullmove_number =
                        IF g.turn = "Black" THEN g.fullmove_number + 1 ELSE g.fullmove_number,
                    !.turn = opponent(g.turn),
                    !.hash = h5],
        undo |->
          [captured_piece |-> captured_piece,
           old_en_passant |-> g.en_passant,
           old_special_rights |-> g.special_rights,
           old_halfmove_clock |-> g.halfmove_clock,
           special_rights_removed |-> removed]]

\* GameState::undo_move.  The position hash goes back to the value make_move
\* pushed.
undo_move(g, m, undo) ==
    LET turn == opponent(g.turn)
        moved == g.board[m.to]
        b1 == remove_piece(g.board, m.to[1], m.to[2])
        mat1 == IF m.promotion # {}
                THEN (IF moved.color = "White"
                      THEN g.material_score - get_piece_value(moved.piece_type)
                           + get_piece_value("Pawn")
                      ELSE g.material_score + get_piece_value(moved.piece_type)
                           - get_piece_value("Pawn"))
                ELSE g.material_score
        piece == IF m.promotion # {} THEN Piece("Pawn", moved.color) ELSE moved
        b2 == set_piece(b1, m.from[1], m.from[2], piece)
        has_captured == undo.captured_piece # {}
        captured == TheOne(undo.captured_piece)
        mat2 == IF has_captured THEN capture_material(mat1, captured, -1) ELSE mat1
        wc2 == IF has_captured THEN capture_count(g.white_piece_count, "White", captured, -1)
               ELSE g.white_piece_count
        bc2 == IF has_captured THEN capture_count(g.black_piece_count, "Black", captured, -1)
               ELSE g.black_piece_count
        b3 == IF has_captured THEN set_piece(b2, m.to[1], m.to[2], captured) ELSE b2
        was_ep == /\ piece.piece_type = "Pawn"
                  /\ \E ep \in undo.old_en_passant : m.to = ep.square
        captured_pawn == Piece("Pawn", opponent(piece.color))
        ep_pawn_square == IF was_ep THEN TheOne(undo.old_en_passant).pawn_square ELSE m.to
        b4 == IF was_ep THEN set_piece(b3, ep_pawn_square[1], ep_pawn_square[2], captured_pawn)
              ELSE b3
        mat3 == IF was_ep THEN capture_material(mat2, captured_pawn, -1) ELSE mat2
        wc3 == IF was_ep THEN capture_count(wc2, "White", captured_pawn, -1) ELSE wc2
        bc3 == IF was_ep THEN capture_count(bc2, "Black", captured_pawn, -1) ELSE bc2
        rook_to == <<m.from[1] + (IF m.to[1] - m.from[1] > 0 THEN 1 ELSE -1), m.from[2]>>
        castling_revert ==
            /\ piece.piece_type = "King"
            /\ Abs(m.to[1] - m.from[1]) > 1
            /\ m.rook_coord # {}
            /\ get_piece(b4, rook_to[1], rook_to[2]) # {}
        rook_coord == IF castling_revert THEN TheOne(m.rook_coord) ELSE m.from
        b5 == IF castling_revert
              THEN set_piece(remove_piece(b4, rook_to[1], rook_to[2]),
                             rook_coord[1], rook_coord[2], b4[rook_to])
              ELSE b4
    IN [g EXCEPT !.hash_stack = SubSeq(g.hash_stack, 1, Len(g.hash_stack) - 1),
                 !.hash = g.hash_stack[Len(g.hash_stack)],
                 !.turn = turn,
                 !.fullmove_number =
                     IF turn = "Black" THEN g.fullmove_number - 1 ELSE g.fullmove_number,
                 !.board = b5,
                 !.material_score = mat3,
                 !.white_piece_count = wc3,
                 !.black_piece_count = bc3,
                 !.en_passant = undo.old_en_passant,
                 !.special_rights = undo.old_special_rights,
                 !.halfmove_clock = undo.old_halfmove_clock]

\* The position hash computed from scratch from the fields it covers.
hash_from_scratch(g) ==
    Xor(Xor(Xor(XorAll([c \in DOMAIN g.board |-> piece_hash(g.board[c], c)], DOMAIN g.board),
                XorAll([c \in g.special_rights |-> special_right_key(c)], g.special_rights)),
            en_passant_hash(g.en_passant)),
        IF g.turn = "Black" THEN SIDE_KEY ELSE NoKey)

\* GameState::is_move_illegal, called after make_move: some royal of the side
\* that just moved is attacked by the side now to move.
is_move_illegal(g) ==
    \E c \in DOMAIN g.board :
        /\ g.board[c].color = opponent(g.turn)
        /\ is_royal(g.board[c].piece_type)
        /\ is_square_attacked(g.board, c, g.turn, TRUE)

GameLegalMoves(g) ==
    get_legal_moves(g.board, g.turn, g.special_rights, g.en_passant, g.game_rules)

\* is_threefold answering at the second occurrence of the position.
is_threefold_twofold(g) ==
    LET len == Len(g.hash_stack)
        lookback == IF g.halfmove_clock < len THEN g.halfmove_clock ELSE len
        from == len - lookback
        to == IF len > 0 THEN len - 1 ELSE 0
        indices == {i \in (from + 1)..to : (to - i) % 2 = 0}
        matches == {i \in indices : g.hash_stack[i] = generate_hash(g)}
    IN IF g.null_moves > 0 THEN FALSE
       ELSE IF len < 6 THEN FALSE
       ELSE IF to <= from THEN FALSE
       ELSE 1 + Cardinality(matches) >= 2

\* GameState::is_threefold.
is_threefold(g) ==
    LET len == Len(g.hash_stack)
        lookback == IF g.halfmove_clock < len THEN g.halfmove_clock ELSE len
        from == len - lookback
        to == IF len > 0 THEN len - 1 ELSE 0
        \* (from..to).rev().step_by(2), as positions of the 1-based sequence
        indices == {i \in (from + 1)..to : (to - i) % 2 = 0}
        matches == {i \in indices : g.hash_stack[i] = generate_hash(g)}
    IN IF g.null_moves > 0 THEN FALSE
       ELSE IF len < 6 THEN FALSE
       ELSE IF to <= from THEN FALSE
       ELSE 1 + Cardinality(matches) >= 3

\* A perft that counts the moves of the first ply and goes no deeper.
perft_one_level(g, depth) ==
    [nodes |-> IF depth = 0 THEN 1 ELSE Cardinality(GameLegalMoves(g)), game |-> g]

\* GameState::perft: the node count, and the state the call leaves behind
\* (each move is made, searched and undone on the one mutable state).
RECURSIVE perft(_, _)
RECURSIVE perft_loop(_, _, _)
perft(g, depth) ==
    IF depth = 0 THEN [nodes |-> 1, game |-> g]
    ELSE perft_loop(g, GameLegalMoves(g), depth)

perft_loop(g, moves, depth) ==
    IF moves = {} THEN [nodes |-> 0, game |-> g]
    ELSE LET m == CHOOSE m \in moves : TRUE
             made == make_move(g, m)
             below == perft(made.game, depth - 1)
             rest == perft_loop(undo_move(below.game, m, made.undo), moves \ {m}, depth)
         IN [nodes |-> below.nodes + rest.nodes, game |-> rest.game]

\* ------------------------------------------------------ transposition table

\* The score limits tt.rs imports from the search module.
INFINITY == 1000000
MATE_VALUE == 900000
MATE_SCORE == 800000

I32_MAX == 2147483647
I32_MIN == -I32_MAX - 1

\* A score kept as it is, whatever the ply.
value_to_tt_as_is(value, ply) == value

value_to_tt(value, ply) ==
    IF value > MATE_SCORE THEN value + ply
    ELSE IF value < -MATE_SCORE THEN value - ply
    ELSE value

value_from_tt(value, ply, rule50_count, rule_limit) ==
    IF value > MATE_SCORE THEN
        LET mate_distance == MATE_VALUE - value
        IN IF mate_distance + rule50_count > rule_limit THEN MATE_SCORE - 1
           ELSE value - ply
    ELSE IF value < -MATE_SCORE THEN
        LET mate_distance == MATE_VALUE + value
        IN IF mate_distance + rule50_count > rule_limit THEN -MATE_SCORE + 1
           ELSE value + ply
    ELSE value

ENTRIES_PER_BUCKET == 3

\* TTFlag as u8, and TTFlag::from_u8.
TTFlag_as_u8(flag) ==
    CASE flag = "None" -> 0
      [] flag = "Exact" -> 1
      [] flag = "LowerBound" -> 2
      [] flag = "UpperBound" -> 3

TTFlag_from_u8(v) ==
    CASE v % 4 = 0 -> "None"
      [] v % 4 = 1 -> "Exact"
      [] v % 4 = 2 -> "LowerBound"
      [] v % 4 = 3 -> "UpperBound"

\* TTMove: the compact move, absent when from_x is the sentinel.
TTMove_none == {}

TTMove_from_move(m) ==
    {[from_x |-> m.from[1], from_y |-> m.from[2], to_x |-> m.to[1], to_y |-> m.to[2],
      piece_type |-> m.piece.piece_type, piece_color |-> m.piece.color,
      promotion |-> m.promotion]}

\* TTMove::to_move: the Move rebuilt from the compact move, without rook_coord.
to_move(tt_move) ==
    {[from |-> <<t.from_x, t.from_y>>, to |-> <<t.to_x, t.to_y>>,
      piece |-> Piece(t.piece_type, t.piece_color),
      promotion |-> t.promotion, rook_coord |-> {}] : t \in tt_move}

TTEntry_empty == [key |-> 0, score |-> 0, depth |-> 0, gen_bound |-> 0, tt_move |-> TTMove_none]

TTEntry_is_empty(entry) == entry.gen_bound = 0 /\ entry.key = 0

TTEntry_flag(entry) == TTFlag_from_u8(entry.gen_bound)

TTEntry_generation(entry) == entry.gen_bound \div 4

pack_gen_bound(generation, flag) == ((generation * 4) % 256) + TTFlag_as_u8(flag)

TTEntry_best_move(entry) == to_move(entry.tt_move)

TTBucket_empty == [i \in 1..ENTRIES_PER_BUCKET |-> TTEntry_empty]

\* size_of::<TTBucket>(): three 64-byte entries.
TTBucket_size == 64 * ENTRIES_PER_BUCKET

RECURSIVE cap_pow2(_, _)
cap_pow2(cap, num_buckets) ==
    IF cap * 2 <= num_buckets THEN cap_pow2(cap * 2, num_buckets) ELSE cap

\* TranspositionTable::new.  buckets lists the buckets written since; every
\* other bucket of the 0..mask is empty.
TranspositionTable_new(size_mb) ==
    LET bytes == (IF size_mb > 1 THEN size_mb ELSE 1) * 1024 * 1024
        num_buckets == IF bytes \div TTBucket_size > 1 THEN bytes \div TTBucket_size ELSE 1
    IN [buckets |-> [i \in {} |-> TTBucket_empty],
        mask |-> cap_pow2(1, num_buckets) - 1,
        generation |-> 1,
        used |-> 0]

bucket_index(t, hash) == hash % (t.mask + 1)

bucket_at(t, idx) == IF idx \in DOMAIN t.buckets THEN t.buckets[idx] ELSE TTBucket_empty

\* calculate_replacement_score with age counted in the entry's favour.
calculate_replacement_score_age_bonus(entry, current_generation) ==
    IF TTEntry_is_empty(entry) THEN I32_MIN
    ELSE LET age_diff == ((current_generation - TTEntry_generation(entry)) % 256) % 64
         IN entry.depth + age_diff * 2 + (IF TTEntry_flag(entry) = "Exact" THEN 2 ELSE 0)

calculate_replacement_score(entry, current_generation) ==
    IF TTEntry_is_empty(entry) THEN I32_MIN
    ELSE LET age_diff == ((current_generation - TTEntry_generation(entry)) % 256) % 64
         IN entry.depth - age_diff * 2 + (IF TTEntry_flag(entry) = "Exact" THEN 2 ELSE 0)

\* The table with entry i of bucket idx overwritten and counted as one more
\* entry whatever the slot held.
write_entry_counted(t, idx, i, new_entry) ==
    LET bucket == bucket_at(t, idx)
    IN [t EXCEPT !.buckets = [b \in (DOMAIN t.buckets) \cup {idx} |->
                                 IF b = idx THEN [bucket EXCEPT ![i] = new_entry]
                                 ELSE t.buckets[b]],
                 !.used = t.used + 1]

\* The table with entry i of bucket idx overwritten.
write_entry(t, idx, i, new_entry) ==
    LET bucket == bucket_at(t, idx)
    IN [t EXCEPT !.buckets = [b \in (DOMAIN t.buckets) \cup {idx} |->
                                 IF b = idx THEN [bucket EXCEPT ![i] = new_entry]
                                 ELSE t.buckets[b]],
                 !.used = IF TTEntry_is_empty(bucket[i]) THEN t.used + 1 ELSE t.used]

\* TranspositionTable::store with the mate score left as the search gave it.
store_unadjusted(t, hash, depth, flag, score, best_move, ply) ==
    LET idx == bucket_index(t, hash)
        bucket == bucket_at(t, idx)
        new_entry == [key |-> hash, score |-> score, depth |-> depth % 256,
                      gen_bound |-> pack_gen_bound(t.generation, flag),
                      tt_move |-> IF best_move = {} THEN TTMove_none
                                  ELSE TTMove_from_move(TheOne(best_move))]
        same_key == {i \in 1..ENTRIES_PER_BUCKET : bucket[i].key = hash}
        entry_score(i) == calculate_replacement_score(bucket[i], t.generation)
        worst_score == MinOf({entry_score(i) : i \in 1..ENTRIES_PER_BUCKET})
        replace_idx == MinOf({i \in 1..ENTRIES_PER_BUCKET : entry_score(i) = worst_score})
        new_score == calculate_replacement_score(new_entry, t.generation)
    IN IF same_key # {} THEN
           IF depth >= bucket[MinOf(same_key)].depth \/ flag = "Exact"
           THEN write_entry(t, idx, MinOf(same_key), new_entry)
           ELSE t
       ELSE IF new_score >= worst_score THEN write_entry(t, idx, replace_idx, new_entry)
       ELSE t

\* TranspositionTable::store with an entry of the same key always replaced.
store_always_replace(t, hash, depth, flag, score, best_move, ply) ==
    LET adjusted_score == value_to_tt(score, ply)
        idx == bucket_index(t, hash)
        bucket == bucket_at(t, idx)
        new_entry == [key |-> hash, score |-> adjusted_score, depth |-> depth % 256,
                      gen_bound |-> pack_gen_bound(t.generation, flag),
                      tt_move |-> IF best_move = {} THEN TTMove_none
                                  ELSE TTMove_from_move(TheOne(best_move))]
        same_key == {i \in 1..ENTRIES_PER_BUCKET : bucket[i].key = hash}
        entry_score(i) == calculate_replacement_score(bucket[i], t.generation)
        worst_score == MinOf({entry_score(i) : i \in 1..ENTRIES_PER_BUCKET})
        replace_idx == MinOf({i \in 1..ENTRIES_PER_BUCKET : entry_score(i) = worst_score})
        new_score == calculate_replacement_score(new_entry, t.generation)
    IN IF same_key # {} THEN write_entry(t, idx, MinOf(same_key), new_entry)
       ELSE IF new_score >= worst_score THEN write_entry(t, idx, replace_idx, new_entry)
       ELSE t

\* TranspositionTable::store with a new key written to the first slot.
store_first_slot(t, hash, depth, flag, score, best_move, ply) ==
    LET adjusted_score == value_to_tt(score, ply)
        idx == bucket_index(t, hash)
        bucket == bucket_at(t, idx)
        new_entry == [key |-> hash, score |-> adjusted_score, depth |-> depth % 256,
                      gen_bound |-> pack_gen_bound(t.generation, flag),
                      tt_move |-> IF best_move = {} THEN TTMove_none
                                  ELSE TTMove_from_move(TheOne(best_move))]
        same_key == {i \in 1..ENTRIES_PER_BUCKET : bucket[i].key = hash}
        first_score == calculate_replacement_score(bucket[1], t.generation)
        new_score == calculate_replacement_score(new_entry, t.generation)
    IN IF same_key # {} THEN
           IF depth >= bucket[MinOf(same_key)].depth \/ flag = "Exact"
           THEN write_entry(t, idx, MinOf(same_key), new_entry)
           ELSE t
       ELSE IF new_score >= first_score THEN write_entry(t, idx, 1, new_entry)
       ELSE t

\* TranspositionTable::store without the search for the key in the bucket.
store_without_lookup(t, hash, depth, flag, score, best_move, ply) ==
    LET adjusted_score == value_to_tt(score, ply)
        idx == bucket_index(t, hash)
        bucket == bucket_at(t, idx)
        new_entry == [key |-> hash, score |-> adjusted_score, depth |-> depth % 256,
                      gen_bound |-> pack_gen_bound(t.generation, flag),
                      tt_move |-> IF best_move = {} THEN TTMove_none
                                  ELSE TTMove_from_move(TheOne(best_move))]
        entry_score(i) == calculate_replacement_score(bucket[i], t.generation)
        worst_score == MinOf({entry_score(i) : i \in 1..ENTRIES_PER_BUCKET})
        replace_idx == MinOf({i \in 1..ENTRIES_PER_BUCKET : entry_score(i) = worst_score})
        new_score == calculate_replacement_score(new_entry, t.generation)
    IN IF new_score >= worst_score THEN write_entry(t, idx, replace_idx, new_entry)
       ELSE t

\* TranspositionTable::store.
store(t, hash, depth, flag, score, best_move, ply) ==
    LET adjusted_score == value_to_tt(score, ply)
        idx == bucket_index(t, hash)
        bucket == bucket_at(t, idx)
        new_entry == [key |-> hash, score |-> adjusted_score, depth |-> depth % 256,
                      gen_bound |-> pack_gen_bound(t.generation, flag),
                      tt_move |-> IF best_move = {} THEN TTMove_none
                                  ELSE TTMove_from_move(TheOne(best_move))]
        same_key == {i \in 1..ENTRIES_PER_BUCKET : bucket[i].key = hash}
        entry_score(i) == calculate_replacement_score(bucket[i], t.generation)
        worst_score == MinOf({entry_score(i) : i \in 1..ENTRIES_PER_BUCKET})
        replace_idx == MinOf({i \in 1..ENTRIES_PER_BUCKET : entry_score(i) = worst_score})
        new_score == calculate_replacement_score(new_entry, t.generation)
    IN IF same_key # {} THEN
           IF depth >= bucket[MinOf(same_key)].depth \/ flag = "Exact"
           THEN write_entry(t, idx, MinOf(same_key), new_entry)
           ELSE t
       ELSE IF new_score >= worst_score THEN write_entry(t, idx, replace_idx, new_entry)
       ELSE t

\* TranspositionTable::probe with the stored depth never asked about.
probe_any_depth(t, hash, alpha, beta, depth, ply, rule50_count, rule_limit) ==
    LET bucket == bucket_at(t, bucket_index(t, hash))
        found == {i \in 1..ENTRIES_PER_BUCKET :
                     bucket[i].key = hash /\ ~TTEntry_is_empty(bucket[i])}
    IN IF found = {} THEN {}
       ELSE LET entry == bucket[MinOf(found)]
                best_move == TTEntry_best_move(entry)
                score == value_from_tt(entry.score, ply, rule50_count, rule_limit)
                usable == \/ TTEntry_flag(entry) = "Exact"
                          \/ TTEntry_flag(entry) = "LowerBound" /\ score >= beta
                          \/ TTEntry_flag(entry) = "UpperBound" /\ score <= alpha
            IN IF usable
               THEN {[score |-> score, best_move |-> best_move]}
               ELSE {[score |-> INFINITY + 1, best_move |-> best_move]}

\* TranspositionTable::probe: no result, or the score and the move; the score
\* is INFINITY + 1 when only the move is usable.
probe(t, hash, alpha, beta, depth, ply, rule50_count, rule_limit) ==
    LET bucket == bucket_at(t, bucket_index(t, hash))
        found == {i \in 1..ENTRIES_PER_BUCKET :
                     bucket[i].key = hash /\ ~TTEntry_is_empty(bucket[i])}
    IN IF found = {} THEN {}
       ELSE LET entry == bucket[MinOf(found)]
                best_move == TTEntry_best_move(entry)
                score == value_from_tt(entry.score, ply, rule50_count, rule_limit)
                usable == \/ TTEntry_flag(entry) = "Exact"
                          \/ TTEntry_flag(entry) = "LowerBound" /\ score >= beta
                          \/ TTEntry_flag(entry) = "UpperBound" /\ score <= alpha
            IN IF entry.depth >= depth /\ usable
               THEN {[score |-> score, best_move |-> best_move]}
               ELSE {[score |-> INFINITY + 1, best_move |-> best_move]}

increment_age(t) ==
    LET next == (t.generation + 1) % 64
    IN [t EXCEPT !.generation = IF next = 0 THEN 1 ELSE next]

clear(t) ==
    [t EXCEPT !.buckets = [i \in {} |-> TTBucket_empty], !.generation = 1, !.used = 0]

\* ------------------------------------------------- static exchange (see.rs)

NoSee == [move |-> {}, threshold |-> 0, value |-> 0, ge |-> FALSE]

\* No StagedMoveGen has been created.
NoPicker == [stage |-> "None"]

SEE_MAX_PIECES == 128

\* The PieceInfo list static_exchange_eval_impl builds from the board; a
\* piece no longer alive is left out of it.
see_pieces(board) ==
    {[x |-> c[1], y |-> c[2], piece_type |-> board[c].piece_type, color |-> board[c].color] :
        c \in DOMAIN board}

find_piece_index(pieces, x, y) == {p \in pieces : p.x = x /\ p.y = y}

is_clear_ray(p, dx, dy, pieces) ==
    LET adx == Abs(dx)
        ady == Abs(dy)
        is_ortho == (dx = 0 /\ dy # 0) \/ (dy = 0 /\ dx # 0)
        is_diag == adx = ady /\ adx # 0
        blocks(other) ==
            LET odx == other.x - p.x
                ody == other.y - p.y
            IN /\ ~(other.x = p.x + dx /\ other.y = p.y + dy)
               /\ ~(other.x = p.x /\ other.y = p.y)
               /\ IF is_ortho
                  THEN IF dx = 0
                       THEN odx = 0 /\ signum(ody) = signum(dy) /\ Abs(ody) < ady
                       ELSE ody = 0 /\ signum(odx) = signum(dx) /\ Abs(odx) < adx
                  ELSE /\ Abs(odx) = Abs(ody) /\ Abs(odx) > 0
                       /\ signum(odx) = signum(dx) /\ signum(ody) = signum(dy)
                       /\ Abs(odx) < adx
    IN (is_ortho \/ is_diag) /\ ~\E other \in pieces : blocks(other)

can_attack(p, tx, ty, pieces) ==
    LET dx == tx - p.x
        dy == ty - p.y
        adx == Abs(dx)
        ady == Abs(dy)
        t == p.piece_type
        knight == (adx = 1 /\ ady = 2) \/ (adx = 2 /\ ady = 1)
        king == (adx <= 1 /\ ady <= 1) /\ (dx # 0 \/ dy # 0)
        rook == ((dx = 0 /\ dy # 0) \/ (dy = 0 /\ dx # 0)) /\ is_clear_ray(p, dx, dy, pieces)
        bishop == adx = ady /\ adx # 0 /\ is_clear_ray(p, dx, dy, pieces)
        queen == (dx = 0 \/ dy = 0 \/ adx = ady) /\ is_clear_ray(p, dx, dy, pieces)
    IN CASE t = "Pawn" ->
              /\ p.color # "Neutral"
              /\ dy = (IF p.color = "White" THEN 1 ELSE -1)
              /\ (dx = 1 \/ dx = -1)
         [] t = "Knight" -> knight
         [] t = "Bishop" -> bishop
         [] t = "Rook" -> rook
         [] t \in {"Queen", "RoyalQueen"} -> queen
         [] t \in {"King", "Guard"} -> king
         [] t = "Giraffe" -> (adx = 1 /\ ady = 4) \/ (adx = 4 /\ ady = 1)
         [] t = "Camel" -> (adx = 1 /\ ady = 3) \/ (adx = 3 /\ ady = 1)
         [] t = "Zebra" -> (adx = 2 /\ ady = 3) \/ (adx = 3 /\ ady = 2)
         [] t = "Amazon" -> queen \/ knight
         [] t = "Chancellor" -> rook \/ knight
         [] t = "Archbishop" -> bishop \/ knight
         [] t \in {"Centaur", "RoyalCentaur"} -> king \/ knight
         [] t = "Hawk" -> <<dx, dy>> \in HawkOffsets
         [] t = "Knightrider" ->
              \E b \in KnightOffsets : \E k \in 1..(adx + ady) :
                  dx = k * b[1] /\ dy = k * b[2]
         [] t = "Huygen" ->
              /\ (dx = 0 /\ dy # 0) \/ (dy = 0 /\ dx # 0)
              /\ is_prime_i64(IF dx = 0 THEN ady ELSE adx)
         [] t = "Rose" -> knight
         [] OTHER -> FALSE

\* least_valuable_attacker looking at the pieces of both sides.
least_valuable_attacker_any_side(pieces, side, tx, ty) ==
    LET attackers == {p \in pieces :
                         /\ p.piece_type \notin {"Void", "Obstacle"}
                         /\ can_attack(p, tx, ty, pieces)}
        cheapest == {p \in attackers :
                        \A q \in attackers :
                            get_piece_value(p.piece_type) <= get_piece_value(q.piece_type)}
    IN IF cheapest = {} THEN {}
       ELSE {CHOOSE p \in cheapest :
                \A q \in cheapest : p.y < q.y \/ (p.y = q.y /\ p.x <= q.x)}

\* The first of the cheapest pieces of side that can_attack the target, the
\* list taken rank by rank.
least_valuable_attacker(pieces, side, tx, ty) ==
    LET attackers == {p \in pieces :
                         /\ p.color = side
                         /\ p.piece_type \notin {"Void", "Obstacle"}
                         /\ can_attack(p, tx, ty, pieces)}
        cheapest == {p \in attackers :
                        \A q \in attackers :
                            get_piece_value(p.piece_type) <= get_piece_value(q.piece_type)}
    IN IF cheapest = {} THEN {}
       ELSE {CHOOSE p \in cheapest :
                \A q \in cheapest : p.y < q.y \/ (p.y = q.y /\ p.x <= q.x)}

\* The loop of recaptures: the swap list gain[0..depth-1], as a sequence.
RECURSIVE see_swap_list(_, _, _, _, _, _)
see_swap_list(pieces, side, occ_type, gain, tx, ty) ==
    LET next_side == opponent(side)
        att == least_valuable_attacker(pieces, next_side, tx, ty)
    IN IF Len(gain) >= 32 \/ att = {} THEN gain
       ELSE see_swap_list(pieces \ att, next_side, TheOne(att).piece_type,
                          Append(gain, get_piece_value(occ_type) - gain[Len(gain)]), tx, ty)

\* The fold that keeps the first gain and forgets the recaptures.
see_negamax_first_gain(gain) == gain[1]

\* The swap list folded back to gain[0].
RECURSIVE see_negamax(_)
see_negamax(gain) ==
    IF Len(gain) <= 1 THEN gain[1]
    ELSE LET v == gain[Len(gain)]
             prev == gain[Len(gain) - 1]
             best == IF -prev > v THEN -prev ELSE v
         IN see_negamax(Append(SubSeq(gain, 1, Len(gain) - 2), -best))

static_exchange_eval_impl(g, m) ==
    LET captured == get_piece(g.board, m.to[1], m.to[2])
        victim_val == get_piece_value(TheOne(captured).piece_type)
        attacker_val == get_piece_value(m.piece.piece_type)
        pieces == see_pieces(g.board)
        after_capture == pieces \ find_piece_index(pieces, m.to[1], m.to[2])
        attacker == find_piece_index(after_capture, m.from[1], m.from[2])
    IN IF captured = {} THEN 0
       ELSE IF Cardinality(DOMAIN g.board) > SEE_MAX_PIECES THEN victim_val - attacker_val
       ELSE IF attacker = {} THEN victim_val
       ELSE see_negamax(see_swap_list(after_capture \ attacker, g.turn,
                                      TheOne(attacker).piece_type, <<victim_val>>,
                                      m.to[1], m.to[2]))

\* a - b of two i32 for a >= 0, as the release build computes it: the
\* difference wraps round past I32_MAX (the debug build panics there).
sub_i32(a, b) ==
    IF b < 0 /\ a > I32_MAX + b THEN (a - I32_MAX - 1) - (b + I32_MAX + 1)
    ELSE a - b

see_ge(g, m, threshold) ==
    LET captured == get_piece(g.board, m.to[1], m.to[2])
        victim_val == get_piece_value(TheOne(captured).piece_type)
        attacker_val == get_piece_value(m.piece.piece_type)
        swap == sub_i32(victim_val, threshold)
    IN IF captured = {} THEN 0 >= threshold
       ELSE IF swap < 0 THEN FALSE
       ELSE IF attacker_val - swap <= 0 THEN TRUE
       ELSE static_exchange_eval_impl(g, m) >= threshold

\* ------------------------------------------------------ set-up positions

WorldBounds(left, right, bottom, top) ==
    [min_x |-> IF left < right THEN left ELSE right,
     max_x |-> IF left < right THEN right ELSE left,
     min_y |-> IF bottom < top THEN bottom ELSE top,
     max_y |-> IF bottom < top THEN top ELSE bottom]

\* A position set up the way setup_standard_chess and the tests do it: the
\* pieces placed on a new game, the special rights inserted, the material
\* computed from the board; counted says whether recompute_piece_counts was
\* called afterwards.
SetUp(placed, rights, turn, counted) ==
    LET board == BoardOf(placed)
        g == [NewGame EXCEPT !.board = board,
                             !.special_rights = rights,
                             !.turn = turn,
                             !.material_score = calculate_initial_material(board),
                             !.white_piece_count =
                                 IF counted THEN recompute_count(board, "White") ELSE 0,
                             !.black_piece_count =
                                 IF counted THEN recompute_count(board, "Black") ELSE 0]
    IN [g EXCEPT !.hash = hash_from_scratch(g)]

\* Pawns: a double step answered en passant, a promotion by push and by
\* capture.  Piece counts left as GameState::new() set them.
PawnGame ==
    [game |-> SetUp({<<<<2, 5>>, Piece("Pawn", "White")>>,
                     <<<<7, 7>>, Piece("Pawn", "White")>>,
                     <<<<3, 7>>, Piece("Pawn", "Black")>>,
                     <<<<8, 8>>, Piece("Knight", "Black")>>},
                    {<<3, 7>>}, "Black", FALSE),
     world |-> WorldBounds(1, 8, 5, 8)]

\* A king with two castling partners on its rank and an enemy king nearby.
CastleGame ==
    [game |-> SetUp({<<<<1, 1>>, Piece("King", "White")>>,
                     <<<<4, 1>>, Piece("Rook", "White")>>,
                     <<<<6, 1>>, Piece("Rook", "White")>>,
                     <<<<6, 3>>, Piece("King", "Black")>>},
                    {<<1, 1>>, <<4, 1>>, <<6, 1>>}, "White", TRUE),
     world |-> WorldBounds(1, 6, 1, 3)]

\* A king whose castling partner stands two squares away, with an enemy rook
\* bearing on the square between them.
CheckGame ==
    [game |-> SetUp({<<<<5, 1>>, Piece("King", "White")>>,
                     <<<<7, 1>>, Piece("Rook", "White")>>,
                     <<<<6, 3>>, Piece("Rook", "Black")>>},
                    {<<5, 1>>, <<7, 1>>}, "Black", TRUE),
     world |-> WorldBounds(4, 7, 1, 3)]

Scenarios == {PawnGame, CastleGame, CheckGame}

\* ----------------------------------------------------------------- actions

Init ==
    \E s \in Scenarios :
        /\ game = s.game
        /\ world = s.world
        /\ line = <<>>
        /\ tt = TranspositionTable_new(1)
        /\ tt_ops = 0
        /\ see = NoSee
        /\ picker = NoPicker

\* make_move on one of the moves get_legal_moves returns.
DoMakeMove ==
    /\ Len(line) < MaxPly
    /\ \E m \in GameLegalMoves(game) :
          LET made == make_move(game, m)
          IN /\ game' = made.game
             /\ line' = Append(line, [kind |-> "move", move |-> m, undo |-> made.undo,
                                      before |-> game])
    /\ UNCHANGED <<world, tt, tt_ops, see, picker>>

\* undo_move of the newest move of the line, with the UndoMove it returned.
DoUndoMove ==
    /\ Len(line) > 0
    /\ line[Len(line)].kind = "move"
    /\ game' = undo_move(game, line[Len(line)].move, line[Len(line)].undo)
    /\ line' = SubSeq(line, 1, Len(line) - 1)
    /\ UNCHANGED <<world, tt, tt_ops, see, picker>>

Next == DoMakeMove \/ DoUndoMove

Spec == Init /\ [][Next]_vars

\* ------------------------------------------------------------------ claims

\* C1: for every reachable state and every move get_legal_moves returns,
\* make_move followed by undo_move leaves every field of the GameState as it
\* was (board, rights, en passant, clocks, side, material, piece counts, hash
\* stack).
C1_MakeUndoRestores ==
    \A m \in GameLegalMoves(game) :
        undo_move(make_move(game, m).game, m, make_move(game, m).undo) = game

C3_MaterialMatchesBoard ==
    game.material_score = calculate_initial_material(game.board)

\* Depth of the perft calls compared with the legal-move tree.
PerftDepth == 2

\* The number of leaves of the depth-d tree of legal moves: a move after
\* which a royal of the mover is attacked opens no subtree.
RECURSIVE legal_leaves(_, _)
legal_leaves(g, depth) ==
    IF depth = 0 THEN 1
    ELSE LET moves == GameLegalMoves(g)
         IN SumOver([m \in moves |->
                        IF is_move_illegal(make_move(g, m).game) THEN 0
                        ELSE legal_leaves(make_move(g, m).game, depth - 1)],
                    moves)

\* C6: perft(d) is the number of leaves of the depth-d tree of legal moves;
\* a move that leaves the mover's own royal attacked contributes no leaf.
C6_PerftCountsLegalLeaves ==
    \A d \in 0..PerftDepth : perft(game, d).nodes = legal_leaves(game, d)

\* The king of the colour has moved in the line played so far.
KingHasMoved(color) ==
    \E i \in DOMAIN line : line[i].move.piece = Piece("King", color)

\* A piece standing on c with a special right was captured in the line played
\* so far.
PartnerCaptured(c) ==
    \E i \in DOMAIN line :
        /\ line[i].undo.captured_piece # {}
        /\ line[i].move.to = c
        /\ c \in line[i].before.special_rights

\* The standard start with f1 and g1 emptied.
StandardBackRank == <<"Rook", "Knight", "Bishop", "Queen", "King", "Bishop", "Knight", "Rook">>

StandardPlaced ==
    {<<<<x, 1>>, Piece(StandardBackRank[x], "White")>> : x \in 1..8}
    \cup {<<<<x, 2>>, Piece("Pawn", "White")>> : x \in 1..8}
    \cup {<<<<x, 7>>, Piece("Pawn", "Black")>> : x \in 1..8}
    \cup {<<<<x, 8>>, Piece(StandardBackRank[x], "Black")>> : x \in 1..8}

StandardRights ==
    {<<1, 1>>, <<5, 1>>, <<8, 1>>, <<1, 8>>, <<5, 8>>, <<8, 8>>}
    \cup {<<x, 2>> : x \in 1..8} \cup {<<x, 7>> : x \in 1..8}

\* setup_standard_chess on a new game.
StandardGame == SetUp(StandardPlaced, StandardRights, "White", FALSE)

KingSideOpen ==
    [StandardGame EXCEPT !.board = remove_piece(remove_piece(StandardGame.board, 6, 1), 7, 1)]

\* C7: the king-side castling move is generated from the standard start with
\* f1 and g1 emptied; and once the piece on a partner coordinate c has been
\* captured, or the king has moved, no position reached by further moves
\* generates a castling move of that king with rook_coord = c.
C7_CastlingRightsLost ==
    /\ \E m \in generate_castling_moves(KingSideOpen.board, <<5, 1>>, Piece("King", "White"),
                                        KingSideOpen.special_rights, TRUE) :
          m.to = <<7, 1>> /\ m.rook_coord = {<<8, 1>>}
    /\ \A k \in DOMAIN game.board :
          game.board[k].piece_type = "King" =>
            \A m \in generate_castling_moves(game.board, k, game.board[k],
                                             game.special_rights, TRUE) :
                /\ ~KingHasMoved(game.board[k].color)
                /\ ~PartnerCaptured(TheOne(m.rook_coord))

\* The castling moves generated for the royal standing on k.
CastlingMovesOf(k) ==
    {m \in get_pseudo_legal_moves_for_piece(game.board, game.board[k], k,
                                            game.special_rights, game.en_passant,
                                            TRUE, game.game_rules) :
        m.rook_coord # {}}

RoyalSquares == {k \in DOMAIN game.board : is_royal(game.board[k].piece_type)}

BetweenOnRank(k, c) ==
    {<<x, k[2]>> : x \in (IF k[1] < c[1] THEN (k[1] + 1)..(c[1] - 1)
                          ELSE (c[1] + 1)..(k[1] - 1))}

RepPly == 9
MaxNull == 1

\* make_null_move that leaves the counter alone.
make_null_move_uncounted(g) ==
    [g EXCEPT !.hash_stack = Append(g.hash_stack, generate_hash(g)),
              !.en_passant = {},
              !.turn = opponent(g.turn),
              !.hash = Xor(Xor(g.hash, en_passant_hash(g.en_passant)), SIDE_KEY)]

\* GameState::make_null_move.  The position hash drops the en passant key and
\* flips the side key.
make_null_move(g) ==
    [g EXCEPT !.hash_stack = Append(g.hash_stack, generate_hash(g)),
              !.en_passant = {},
              !.turn = opponent(g.turn),
              !.null_moves = g.null_moves + 1,
              !.hash = Xor(Xor(g.hash, en_passant_hash(g.en_passant)), SIDE_KEY)]

\* GameState::unmake_null_move.
unmake_null_move(g) ==
    [g EXCEPT !.hash_stack = SubSeq(g.hash_stack, 1, Len(g.hash_stack) - 1),
              !.turn = opponent(g.turn),
              !.null_moves = g.null_moves - 1,
              !.hash = Xor(g.hash, SIDE_KEY)]

\* Two rooks far from the origin, where the coordinate hash works in buckets
\* of ZOBRIST_BUCKETS squares, with an obstacle above each of the two files
\* they move between.
FarGame ==
    [game |-> SetUp({<<<<151, 1>>, Piece("Rook", "White")>>,
                     <<<<151, 3>>, Piece("Rook", "Black")>>,
                     <<<<151, 5>>, Piece("Obstacle", "Neutral")>>,
                     <<<<159, 5>>, Piece("Obstacle", "Neutral")>>},
                    {}, "White", TRUE),
     world |-> WorldBounds(150, 160, 1, 5)]

\* setup_standard_chess, confined to the 8x8 board.
StandardStart == [game |-> StandardGame, world |-> WorldBounds(1, 8, 1, 8)]

\* The home and developed squares of the four knights, and the squares the
\* two far rooks move between.
ShuffleSquares ==
    {<<2, 1>>, <<3, 3>>, <<7, 1>>, <<6, 3>>, <<2, 8>>, <<3, 6>>, <<7, 8>>, <<6, 6>>,
     <<151, 1>>, <<159, 1>>, <<151, 3>>, <<159, 3>>}

\* The generated moves that take a knight or rook of the side to move from
\* one of the shuffle squares to another.
ShuffleMoves(g) ==
    UNION {{m \in get_pseudo_legal_moves_for_piece(g.board, g.board[c], c, g.special_rights,
                                                   g.en_passant, TRUE, g.game_rules) :
               m.to \in ShuffleSquares} :
              c \in {c \in ShuffleSquares \cap DOMAIN g.board :
                       /\ g.board[c].color = g.turn
                       /\ g.board[c].piece_type \in {"Knight", "Rook"}}}

\* The two far rooks late in a game without captures or pawn moves.
LateStart == [FarGame EXCEPT !.game.halfmove_clock = 92]

\* The standard start after the double push e2-e4: en passant is set.
PushedStart == [StandardStart EXCEPT !.game = make_move(StandardGame, Move(<<5, 2>>, <<5, 4>>, Piece("Pawn", "White"))).game]

InitRep ==
    \E s \in {StandardStart, FarGame, LateStart, PushedStart} :
        /\ game = s.game
        /\ world = s.world
        /\ line = <<>>
        /\ tt = TranspositionTable_new(1)
        /\ tt_ops = 0
        /\ see = NoSee
        /\ picker = NoPicker

\* make_move on a generated move between the shuffle squares.
DoShuffleMove ==
    /\ Len(line) < RepPly
    /\ \E m \in ShuffleMoves(game) :
          LET made == make_move(game, m)
          IN /\ game' = made.game
             /\ line' = Append(line, [kind |-> "move", move |-> m, undo |-> made.undo,
                                      before |-> game])
    /\ UNCHANGED <<world, tt, tt_ops, see, picker>>

DoMakeNullMove ==
    /\ Len(line) < RepPly
    /\ game.null_moves < MaxNull
    /\ game' = make_null_move(game)
    /\ line' = Append(line, [kind |-> "null", before |-> game])
    /\ UNCHANGED <<world, tt, tt_ops, see, picker>>

DoUnmakeNullMove ==
    /\ Len(line) > 0
    /\ line[Len(line)].kind = "null"
    /\ game' = unmake_null_move(game)
    /\ line' = SubSeq(line, 1, Len(line) - 1)
    /\ UNCHANGED <<world, tt, tt_ops, see, picker>>

NextRep == DoShuffleMove \/ DoUndoMove \/ DoMakeNullMove \/ DoUnmakeNullMove

SpecRep == InitRep /\ [][NextRep]_vars

\* The hash_stack entries with the same side to move as the current position
\* (every second ply back) within the last halfmove_clock plies that equal
\* the current position hash.
SameSideRepeats(g) ==
    {i \in 1..Len(g.hash_stack) :
        /\ (Len(g.hash_stack) - i) % 2 = 1
        /\ Len(g.hash_stack) - i < g.halfmove_clock
        /\ g.hash_stack[i] = generate_hash(g)}

KnightShuffle ==
    <<<<<<2, 1>>, <<3, 3>>>>, <<<<2, 8>>, <<3, 6>>>>, <<<<3, 3>>, <<2, 1>>>>, <<<<3, 6>>, <<2, 8>>>>,
      <<<<2, 1>>, <<3, 3>>>>, <<<<2, 8>>, <<3, 6>>>>, <<<<3, 3>>, <<2, 1>>>>, <<<<3, 6>>, <<2, 8>>>>>>

LinePlayed ==
    [i \in DOMAIN line |->
        IF line[i].kind = "move" THEN <<line[i].move.from, line[i].move.to>>
        ELSE <<<<0, 0>>, <<0, 0>>>>]

\* C5 as stated: is_threefold is true exactly when null_moves is 0 and the
\* current hash equals at least two earlier same-side hash_stack entries
\* within the last halfmove_clock plies; it is true after the eight plies
\* Nb1-c3, Nb8-c6, Nc3-b1, Nc6-b8, Nb1-c3, Nb8-c6, Nc3-b1, Nc6-b8 from the
\* standard start.
C5_ThreefoldIff ==
    /\ is_threefold(game)
         <=> (game.null_moves = 0 /\ Cardinality(SameSideRepeats(game)) >= 2)
    /\ LinePlayed = KnightShuffle => is_threefold(game)

\* C5 as amended: is_threefold is true exactly when null_moves is 0, the
\* hash_stack holds at least six entries and the current hash equals at
\* least two earlier same-side entries within the last halfmove_clock plies;
\* it is true after the eight plies of the knight shuffle.
C5_ThreefoldIffSixEntries ==
    /\ is_threefold(game)
         <=> (/\ game.null_moves = 0
              /\ Len(game.hash_stack) >= 6
              /\ Cardinality(SameSideRepeats(game)) >= 2)
    /\ LinePlayed = KnightShuffle => is_threefold(game)

C5_Witness == LinePlayed = KnightShuffle /\ is_threefold(game)

\* ------------------------------------------- the transposition table at work

\* Most operations on the table in one run, most generation bumps looked
\* ahead, and the arguments the operations are called with.
MaxOps == 3
MaxBumps == 64
RULE_LIMIT == 100

TTKeys == {0, 1, 4096, 8192, 12288}
TTDepths == {1, 2, 257}
TTFlags == {"Exact", "LowerBound", "UpperBound"}
TTScores == {-120, 100, MATE_VALUE - 5}
TTPly == 3
TTWindows == {<<-100, 0>>, <<-150, 150>>}
TTRule50 == {0, 99}

KnightMove == Move(<<2, 1>>, <<3, 3>>, Piece("Knight", "White"))
CastleMove == [Move(<<5, 1>>, <<7, 1>>, Piece("King", "White")) EXCEPT !.rook_coord = {<<8, 1>>}]
TTMoves == {{}, {KnightMove}, {CastleMove}}

InitTT ==
    /\ game = StandardStart.game
    /\ world = StandardStart.world
    /\ line = <<>>
    /\ tt = TranspositionTable_new(1)
    /\ tt_ops = 0
    /\ see = NoSee
    /\ picker = NoPicker

DoStore ==
    /\ tt_ops < MaxOps
    /\ \E hash \in TTKeys \ {12288}, flag \in {"Exact", "LowerBound"} :
          tt' = store(tt, hash, 2, flag, -120, {KnightMove}, 0)
    /\ tt_ops' = tt_ops + 1
    /\ UNCHANGED <<game, world, line, see, picker>>

DoIncrementAge ==
    /\ tt_ops < MaxOps
    /\ tt' = increment_age(tt)
    /\ tt_ops' = tt_ops + 1
    /\ UNCHANGED <<game, world, line, see, picker>>

DoClear ==
    /\ tt_ops < MaxOps
    /\ tt' = clear(tt)
    /\ tt_ops' = tt_ops + 1
    /\ UNCHANGED <<game, world, line, see, picker>>

NextTT == DoStore \/ DoIncrementAge \/ DoClear

SpecTT == InitTT /\ [][NextTT]_vars

\* The depths a probe may ask for after a store at depth d.
ProbeDepths(d) == {d2 \in TTDepths \cup {0} : d2 <= d}

BoundAllowsCutoff(B, s, alpha, beta) ==
    \/ B = "Exact"
    \/ B = "LowerBound" /\ s >= beta
    \/ B = "UpperBound" /\ s <= alpha

StoreTakesEffect(t, hash, d, B) ==
    LET bucket == bucket_at(t, bucket_index(t, hash))
        same_key == {i \in 1..ENTRIES_PER_BUCKET : bucket[i].key = hash}
    IN IF same_key # {} THEN d >= bucket[MinOf(same_key)].depth \/ B = "Exact"
       ELSE \E i \in 1..ENTRIES_PER_BUCKET :
               calculate_replacement_score(bucket[i], t.generation)
                 <= d + (IF B = "Exact" THEN 2 ELSE 0)

\* A mate score s given at ply is still a mate the move rule leaves time for.
MateInReach(s, ply, rule50_count, rule_limit) ==
    /\ s > MATE_SCORE => MATE_VALUE - (s + ply) + rule50_count <= rule_limit
    /\ s < -MATE_SCORE => MATE_VALUE + (s - ply) + rule50_count <= rule_limit

WithoutRook(mv) == {[m EXCEPT !.rook_coord = {}] : m \in mv}

StoredEntries(t) ==
    {e \in UNION {Range(t.buckets[b]) : b \in DOMAIN t.buckets} : ~TTEntry_is_empty(e)}

\* The table generation after 0, 1, ..., k calls of increment_age.
RECURSIVE age_run(_, _)
age_run(t, k) ==
    IF k = 0 THEN <<t.generation>>
    ELSE <<t.generation>> \o age_run(increment_age(t), k - 1)

\* How many calls of increment_age take the table from the generation the
\* entry was stored in to its present one, fewer than a whole cycle.
BumpsSinceStored(t, entry) ==
    LET run == age_run([t EXCEPT !.generation = TTEntry_generation(entry)], 62)
    IN MinOf({j \in 0..62 : run[j + 1] = t.generation})

\* C9 as stated: for any stored entry, each call to increment_age never
\* increases its replacement score: for every k >= 0 the score computed
\* after k+1 generation bumps is <= the score computed after k bumps.
C9_AgeNeverRaisesScore ==
    LET run == age_run(tt, MaxBumps)
    IN \A e \in StoredEntries(tt), k \in 0..(MaxBumps - 1) :
          calculate_replacement_score(e, run[k + 2]) <= calculate_replacement_score(e, run[k + 1])

\* C9 as amended: for any stored entry, a call to increment_age does not
\* increase its replacement score as long as it is at most the 62nd call
\* since the entry was stored.
C9_AgeNeverRaisesScoreWithinCycle ==
    LET run == age_run(tt, MaxBumps)
    IN \A e \in StoredEntries(tt) :
          LET since == BumpsSinceStored(tt, e)
          IN \A k \in 0..(MaxBumps - 1) :
                since + k + 1 <= 62
                  => calculate_replacement_score(e, run[k + 2])
                       <= calculate_replacement_score(e, run[k + 1])

\* An entry stored, then aged by a call of increment_age.
C9_Witness ==
    \E e \in StoredEntries(tt) :
        /\ TTEntry_generation(e) # tt.generation
        /\ calculate_replacement_score(e, tt.generation)
             < calculate_replacement_score(e, TTEntry_generation(e))

\* ------------------------------------------------ static exchange at work

\* Most moves made before an evaluation, and the thresholds see_ge is asked.
SeePly == 1
SeeThresholds == {I32_MIN, -75, 0, 100, 101}

\* Two pawns bearing on an undefended pawn, a rook facing an undefended
\* rook, a knight bearing on a pawn that a pawn defends.
SeeOpenGame ==
    [game |-> SetUp({<<<<4, 4>>, Piece("Pawn", "White")>>,
                     <<<<6, 4>>, Piece("Pawn", "White")>>,
                     <<<<5, 5>>, Piece("Pawn", "Black")>>,
                     <<<<2, 4>>, Piece("Rook", "White")>>,
                     <<<<2, 7>>, Piece("Rook", "Black")>>,
                     <<<<7, 4>>, Piece("Knight", "White")>>,
                     <<<<8, 6>>, Piece("Pawn", "Black")>>,
                     <<<<7, 7>>, Piece("Pawn", "Black")>>},
                    {}, "White", TRUE),
     world |-> WorldBounds(2, 8, 4, 7)]

\* A pawn bearing on a pawn, and a knightrider two knight steps behind that
\* pawn with a piece on the step between.
SeeRiderGame ==
    [game |-> SetUp({<<<<4, 4>>, Piece("Pawn", "White")>>,
                     <<<<5, 5>>, Piece("Pawn", "Black")>>,
                     <<<<6, 7>>, Piece("Pawn", "Black")>>,
                     <<<<7, 9>>, Piece("Knightrider", "Black")>>},
                    {}, "White", TRUE),
     world |-> WorldBounds(3, 8, 4, 9)]

\* A pawn bearing on a pawn on a board of 129 pieces.
SeeCrowdedGame ==
    [game |-> SetUp({<<<<4, 4>>, Piece("Pawn", "White")>>,
                     <<<<5, 5>>, Piece("Pawn", "Black")>>}
                    \cup {<<<<x, 7>>, Piece("Obstacle", "Neutral")>> : x \in 1..(SEE_MAX_PIECES - 1)},
                    {}, "White", TRUE),
     world |-> WorldBounds(1, SEE_MAX_PIECES, 4, 7)]

\* A queen bearing on a pawn that a pawn defends.
SeeDefendedGame ==
    [game |-> SetUp({<<<<4, 4>>, Piece("Queen", "White")>>,
                     <<<<5, 5>>, Piece("Pawn", "Black")>>,
                     <<<<6, 6>>, Piece("Pawn", "Black")>>},
                    {}, "White", TRUE),
     world |-> WorldBounds(3, 6, 3, 6)]

\* The same, with a knightrider of the queen's side two knight steps from the
\* pawn and a piece on the step between.
SeeBlockedRiderGame ==
    [game |-> SetUp({<<<<4, 4>>, Piece("Queen", "White")>>,
                     <<<<5, 5>>, Piece("Pawn", "Black")>>,
                     <<<<6, 6>>, Piece("Pawn", "Black")>>,
                     <<<<6, 3>>, Piece("Pawn", "White")>>,
                     <<<<7, 1>>, Piece("Knightrider", "White")>>},
                    {}, "White", TRUE),
     world |-> WorldBounds(4, 7, 1, 6)]

\* A queen bearing on a pawn that a bishop defends, with a bishop of the
\* queen's side behind the defender.
SeeXrayGame ==
    [game |-> SetUp({<<<<4, 4>>, Piece("Queen", "White")>>,
                     <<<<5, 5>>, Piece("Pawn", "Black")>>,
                     <<<<6, 6>>, Piece("Bishop", "Black")>>,
                     <<<<7, 7>>, Piece("Bishop", "White")>>},
                    {}, "White", TRUE),
     world |-> WorldBounds(4, 7, 4, 7)]

InitSee ==
    \E s \in {SeeOpenGame, SeeRiderGame, SeeCrowdedGame,
              SeeDefendedGame, SeeBlockedRiderGame, SeeXrayGame} :
        /\ game = s.game
        /\ world = s.world
        /\ line = <<>>
        /\ tt = TranspositionTable_new(1)
        /\ tt_ops = 0
        /\ see = NoSee
        /\ picker = NoPicker

\* make_move on a generated move, ahead of an evaluation.
DoSeeMove ==
    /\ Len(line) < SeePly
    /\ \E m \in GameLegalMoves(game) :
          LET made == make_move(game, m)
          IN /\ game' = made.game
             /\ line' = Append(line, [kind |-> "move", move |-> m, undo |-> made.undo,
                                      before |-> game])
    /\ see' = NoSee
    /\ UNCHANGED <<world, tt, tt_ops, picker>>

\* static_exchange_eval_impl and see_ge on a generated move of the side to
\* move.
DoStaticExchangeEval ==
    /\ \E m \in GameLegalMoves(game), threshold \in SeeThresholds :
          see' = [move |-> {m}, threshold |-> threshold,
                  value |-> static_exchange_eval_impl(game, m),
                  ge |-> see_ge(game, m, threshold)]
    /\ UNCHANGED <<game, world, line, tt, tt_ops, picker>>

NextSee == DoSeeMove \/ DoStaticExchangeEval

SpecSee == InitSee /\ [][NextSee]_vars

\* The value of the piece standing on the destination of m, 0 for none.
VictimValue(g, m) ==
    IF m.to \in DOMAIN g.board THEN get_piece_value(g.board[m.to].piece_type) ELSE 0

\* Once m is made, its destination is attacked by the other side, as
\* is_square_attacked tells it.
CanRecapture(g, m) ==
    is_square_attacked(make_move(g, m).game.board, m.to, opponent(m.piece.color), TRUE)

\* The pieces of the other side that static_exchange_eval_impl takes to
\* attack the destination of m, the captured piece and the mover set aside.
SeeDefenders(g, m) ==
    LET pieces == {p \in see_pieces(g.board) :
                      <<p.x, p.y>> # m.to /\ <<p.x, p.y>> # m.from}
    IN {p \in pieces :
           /\ p.color = opponent(m.piece.color)
           /\ p.piece_type \notin {"Void", "Obstacle"}
           /\ can_attack(p, m.to[1], m.to[2], pieces)}

PawnTakesPawn(g, m) ==
    /\ m.piece.piece_type = "Pawn"
    /\ m.to \in DOMAIN g.board
    /\ g.board[m.to].piece_type = "Pawn"

\* C10 as stated: when no piece of the opposing side can recapture on the
\* destination square, static_exchange_eval(m) equals the value of the piece
\* standing on the destination, 0 when it is empty; so pawn takes undefended
\* pawn gives 100, see_ge(m, 0) is true and see_ge(m, 101) is false.
C10_SeeUndefended ==
    \A m \in see.move :
        ~CanRecapture(game, m)
          => /\ see.value = VictimValue(game, m)
             /\ PawnTakesPawn(game, m)
                  => /\ see.value = 100
                     /\ see.threshold = 0 => see.ge
                     /\ see.threshold = 101 => ~see.ge

\* C10 as amended: when the board holds at most 128 pieces and no piece of
\* the opposing side attacks the destination square as can_attack sees it,
\* static_exchange_eval(m) equals the value of the piece standing on the
\* destination, 0 when it is empty; so pawn takes undefended pawn gives 100,
\* see_ge(m, 0) is true and see_ge(m, 101) is false.
C10_SeeUndefendedAsSeeSeesIt ==
    \A m \in see.move :
        (Cardinality(DOMAIN game.board) <= SEE_MAX_PIECES /\ SeeDefenders(game, m) = {})
          => /\ see.value = VictimValue(game, m)
             /\ PawnTakesPawn(game, m)
                  => /\ see.value = 100
                     /\ see.threshold = 0 => see.ge
                     /\ see.threshold = 101 => ~see.ge

\* Pawn takes undefended pawn, evaluated at 100 and refused at 101.
C10_Witness ==
    \E m \in see.move :
        /\ PawnTakesPawn(game, m)
        /\ Cardinality(DOMAIN game.board) <= SEE_MAX_PIECES
        /\ SeeDefenders(game, m) = {}
        /\ ~CanRecapture(game, m)
        /\ see.value = 100
        /\ see.threshold = 101
        /\ ~see.ge

\* ------------------------------------------- static exchange: one defender

\* The board with every piece of c's colour other than the one on c turned
\* into an Obstacle: what is left attacks only from c, and blocks as before.
Isolate(board, c) ==
    [d \in DOMAIN board |->
        IF d # c /\ board[d].color = board[c].color
        THEN Piece("Obstacle", "Neutral") ELSE board[d]]

\* The pieces of the colour that attack the target, each as
\* is_square_attacked tells it.
RealAttackers(board, target, color) ==
    {c \in DOMAIN board :
        /\ c # target
        /\ board[c].color = color
        /\ is_square_attacked(Isolate(board, c), target, color, TRUE)}

\* The pieces of the capturing side that static_exchange_eval_impl takes to
\* attack the destination of m once the pieces of gone have left the board
\* along with the captured piece and the mover.
SeeSecondAttackers(g, m, gone) ==
    LET pieces == {p \in see_pieces(g.board) \ gone :
                      <<p.x, p.y>> # m.to /\ <<p.x, p.y>> # m.from}
    IN {p \in pieces :
           /\ p.color = m.piece.color
           /\ p.piece_type \notin {"Void", "Obstacle"}
           /\ can_attack(p, m.to[1], m.to[2], pieces)}

QueenTakesPawn(g, m) ==
    /\ m.piece.piece_type = "Queen"
    /\ m.to \in DOMAIN g.board
    /\ g.board[m.to].piece_type = "Pawn"

C12_SeeGeMonotone ==
    \A m \in see.move :
        \A t1 \in SeeThresholds :
            (t1 <= see.threshold /\ see.ge) => see_ge(game, m, t1)

\* C12 for the thresholds whose difference from the victim's value fits an
\* i32.
C12_SeeGeMonotoneInRange ==
    \A m \in see.move :
        \A t1 \in SeeThresholds :
            (/\ t1 <= see.threshold
             /\ see.ge
             /\ t1 >= VictimValue(game, m) - I32_MAX) => see_ge(game, m, t1)

\* A capture accepted at threshold 0 and refused at the least threshold.
C12_Overflow ==
    \E m \in see.move :
        /\ m.to \in DOMAIN game.board
        /\ see.threshold = 0
        /\ see.ge
        /\ ~see_ge(game, m, I32_MIN)


\* ------------------------------------------------------------- null moves

\* GameState::is_fifty.
is_fifty(g) ==
    IF g.null_moves > 0 THEN FALSE
    ELSE g.halfmove_clock >= 100

\* The last step of the line was a null move.
NullMoveMade == Len(line) > 0 /\ line[Len(line)].kind = "null"

\* C13: make_null_move increments null_moves, flips the side to move, clears
\* en passant and pushes the current hash on hash_stack, and leaves the
\* board, the special rights, the clocks, the material, the piece counts
\* and the rules alone; while null_moves > 0 is_threefold and is_fifty are
\* both false.
C13_NullMoveFrame ==
    /\ NullMoveMade =>
          LET before == line[Len(line)].before
          IN /\ game.null_moves = before.null_moves + 1
             /\ game.turn = opponent(before.turn)
             /\ game.en_passant = {}
             /\ game.hash_stack = Append(before.hash_stack, generate_hash(before))
             /\ game.board = before.board
             /\ game.special_rights = before.special_rights
             /\ game.halfmove_clock = before.halfmove_clock
             /\ game.fullmove_number = before.fullmove_number
             /\ game.material_score = before.material_score
             /\ game.white_piece_count = before.white_piece_count
             /\ game.black_piece_count = before.black_piece_count
             /\ game.game_rules = before.game_rules
    /\ game.null_moves > 0 => ~is_threefold(game) /\ ~is_fifty(game)

\* A null move has just cleared an en passant square.
C13_Witness ==
    /\ NullMoveMade
    /\ line[Len(line)].before.en_passant # {}
    /\ game.en_passant = {}
    /\ game.null_moves = 1
    /\ ~is_threefold(game)
    /\ ~is_fifty(game)

\* With a null move pending, a position that repeats for the third time with
\* the clock past the limit: both tests would answer true without it.
C13_WitnessDisabled ==
    /\ game.null_moves > 0
    /\ is_threefold([game EXCEPT !.null_moves = 0])
    /\ is_fifty([game EXCEPT !.null_moves = 0])
    /\ ~is_threefold(game)
    /\ ~is_fifty(game)


\* ------------------------------------------------- replay by coordinates

\* Longest line replayed through make_move_coords.
CoordsPly == 2

\* The partner make_move_coords finds for a king that moves more than one
\* file: the first piece on the rank past the destination, if it is a Rook of
\* the king's colour.
coords_castling_rook(board, from, to, piece) ==
    LET rook_dir == IF to[1] - from[1] > 0 THEN 1 ELSE -1
        beyond == {c \in DOMAIN board : /\ c[2] = from[2]
                                        /\ (c[1] - to[1]) * rook_dir > 0
                                        /\ c[1] >= -1000000
                                        /\ c[1] <= 1000000}
        first == {c \in beyond : \A d \in beyond : Abs(c[1] - to[1]) <= Abs(d[1] - to[1])}
    IN {c \in first : board[c].piece_type = "Rook" /\ board[c].color = piece.color}

\* GameState::make_move_coords: from, to and an optional promotion code.  The
\* position hash is the one generate_hash gives for the position reached.
make_move_coords(g, from, to, promotion) ==
    LET pushed == [g EXCEPT !.hash_stack = Append(g.hash_stack, generate_hash(g))]
        piece == g.board[from]
        b1 == remove_piece(g.board, from[1], from[2])
        captured == get_piece(b1, to[1], to[2])
        is_capture == captured # {}
        b2 == remove_piece(b1, to[1], to[2])
        mat1 == IF is_capture THEN capture_material(g.material_score, TheOne(captured), 1)
                ELSE g.material_score
        wc1 == IF is_capture THEN capture_count(g.white_piece_count, "White", TheOne(captured), 1)
               ELSE g.white_piece_count
        bc1 == IF is_capture THEN capture_count(g.black_piece_count, "Black", TheOne(captured), 1)
               ELSE g.black_piece_count
        is_ep_capture ==
            /\ piece.piece_type = "Pawn"
            /\ \E ep \in g.en_passant :
                  to = ep.square /\ get_piece(b2, ep.pawn_square[1], ep.pawn_square[2]) # {}
        pawn_square == IF is_ep_capture THEN TheOne(g.en_passant).pawn_square ELSE to
        b3 == IF is_ep_capture THEN remove_piece(b2, pawn_square[1], pawn_square[2]) ELSE b2
        mat2 == IF is_ep_capture THEN capture_material(mat1, b2[pawn_square], 1) ELSE mat1
        wc2 == IF is_ep_capture THEN capture_count(wc1, "White", b2[pawn_square], 1) ELSE wc1
        bc2 == IF is_ep_capture THEN capture_count(bc1, "Black", b2[pawn_square], 1) ELSE bc1
        mat3 == IF promotion # {}
                THEN promotion_material(mat2, piece.color,
                                        get_piece_value(promo_type_of(TheOne(promotion))))
                ELSE mat2
        rights1 == (g.special_rights \ {from}) \ (IF is_capture THEN {to} ELSE {})
        rook == IF piece.piece_type \in {"King", "RoyalCentaur"} /\ Abs(to[1] - from[1]) > 1
                THEN coords_castling_rook(b3, from, to, piece)
                ELSE {}
        rook_to == <<to[1] - (IF to[1] - from[1] > 0 THEN 1 ELSE -1), from[2]>>
        b4 == IF rook # {}
              THEN set_piece(remove_piece(b3, TheOne(rook)[1], TheOne(rook)[2]),
                             rook_to[1], rook_to[2], b3[TheOne(rook)])
              ELSE b3
        rights2 == rights1 \ rook
        final_piece == IF promotion # {}
                       THEN Piece(promo_type_of(TheOne(promotion)), piece.color)
                       ELSE piece
        b5 == set_piece(b4, to[1], to[2], final_piece)
        dy == to[2] - from[2]
        new_en_passant ==
            IF piece.piece_type = "Pawn" /\ Abs(dy) = 2
            THEN {EnPassantState(<<from[1], from[2] + dy \div 2>>, to)}
            ELSE {}
        moved == [pushed EXCEPT !.board = b5,
                                !.material_score = mat3,
                                !.white_piece_count = wc2,
                                !.black_piece_count = bc2,
                                !.special_rights = rights2,
                                !.en_passant = new_en_passant,
                                !.halfmove_clock =
                                    IF piece.piece_type = "Pawn" \/ is_capture \/ is_ep_capture
                                    THEN 0 ELSE g.halfmove_clock + 1,
                                !.fullmove_number =
                                    IF g.turn = "Black" THEN g.fullmove_number + 1
                                    ELSE g.fullmove_number,
                                !.turn = opponent(g.turn)]
    IN IF get_piece(g.board, from[1], from[2]) = {} THEN pushed
       ELSE [moved EXCEPT !.hash = hash_from_scratch(moved)]

\* The calls replayed: the legal moves of the position, and calls that name
\* an empty square next to a piece as the from-square.
CoordsCalls(g) ==
    {[from |-> m.from, to |-> m.to, promotion |-> m.promotion] : m \in GameLegalMoves(g)}
    \cup {[from |-> <<c[1] + d[1], c[2] + d[2]>>, to |-> c, promotion |-> {}] :
             <<c, d>> \in {cd \in (DOMAIN g.board) \X ((-1..1) \X (-1..1)) :
                 /\ <<cd[1][1] + cd[2][1], cd[1][2] + cd[2][2]>> \notin DOMAIN g.board
                 /\ in_bounds(cd[1][1] + cd[2][1], cd[1][2] + cd[2][2])}}

DoMakeMoveCoords ==
    /\ Len(line) < CoordsPly
    /\ \E call \in CoordsCalls(game) :
          /\ game' = make_move_coords(game, call.from, call.to, call.promotion)
          /\ line' = Append(line, [kind |-> "coords", call |-> call, before |-> game])
    /\ UNCHANGED <<world, tt, tt_ops, see, picker>>

NextCoords == DoMakeMoveCoords

SpecCoords == Init /\ [][NextCoords]_vars

\* The last call of the line named a from-square that held no piece.
NoPieceCall ==
    /\ Len(line) > 0
    /\ line[Len(line)].kind = "coords"
    /\ line[Len(line)].call.from \notin DOMAIN line[Len(line)].before.board

\* C14: make_move_coords called with a from-square that holds no piece
\* leaves every field of the GameState as it was, hash_stack included.
C14_NoPieceIsNoOp == NoPieceCall => game = line[Len(line)].before

\* Such a call leaves every field but hash_stack as it was.
C14_NoPieceKeepsTheRest ==
    NoPieceCall => [game EXCEPT !.hash_stack = line[Len(line)].before.hash_stack]
                      = line[Len(line)].before

\* Such a call has left one more entry on hash_stack.
C14_StrayHash ==
    /\ NoPieceCall
    /\ Len(game.hash_stack) = Len(line[Len(line)].before.hash_stack) + 1


\* ------------------------------------------------- move generation at large

\* Longest line of the move-generation specification.
GenPly == 2

\* A small board with its own rules: White promotes on rank 4 to a queen or
\* a knight.  One white pawn still has its double step, another stands before
\* the last rank next to a black knight and a Void.
GenPromoGame ==
    [game |-> [SetUp({<<<<1, 2>>, Piece("Pawn", "White")>>,
                      <<<<3, 3>>, Piece("Pawn", "White")>>,
                      <<<<4, 4>>, Piece("Knight", "Black")>>,
                      <<<<2, 4>>, Piece("Void", "Neutral")>>,
                      <<<<4, 2>>, Piece("Pawn", "Black")>>},
                     {<<1, 2>>}, "White", TRUE)
                 EXCEPT !.game_rules = [promotion_ranks |-> {[white |-> {4}, black |-> {1}]},
                                        promotions_allowed |-> {<<"q", "n">>}]],
     world |-> WorldBounds(1, 4, 1, 4)]

\* A Huygen with an Obstacle, a Void and a pawn of its own at prime
\* distances on three sides, and nothing below it.
GenHuygenGame ==
    [game |-> SetUp({<<<<4, 4>>, Piece("Huygen", "White")>>,
                     <<<<7, 4>>, Piece("Obstacle", "Neutral")>>,
                     <<<<4, 7>>, Piece("Void", "Neutral")>>,
                     <<<<2, 4>>, Piece("Pawn", "White")>>,
                     <<<<8, 8>>, Piece("Pawn", "Black")>>},
                    {}, "White", TRUE),
     world |-> WorldBounds(1, 8, 1, 8)]

\* A Rose with Voids, an Obstacle, an enemy pawn and a pawn of its own on the
\* first squares of its circles.
GenRoseGame ==
    [game |-> SetUp({<<<<4, 4>>, Piece("Rose", "Black")>>,
                     <<<<2, 3>>, Piece("Void", "Neutral")>>,
                     <<<<3, 2>>, Piece("Void", "Neutral")>>,
                     <<<<5, 2>>, Piece("Obstacle", "Neutral")>>,
                     <<<<6, 3>>, Piece("Pawn", "White")>>,
                     <<<<2, 5>>, Piece("Pawn", "Black")>>},
                    {}, "Black", TRUE),
     world |-> WorldBounds(1, 8, 1, 8)]

\* A king on the g-file next to its castling partner on the last file of
\* the world.
GenCornerGame ==
    [game |-> SetUp({<<<<7, 1>>, Piece("King", "White")>>,
                     <<<<8, 1>>, Piece("Rook", "White")>>,
                     <<<<5, 3>>, Piece("King", "Black")>>},
                    {<<7, 1>>, <<8, 1>>}, "White", TRUE),
     world |-> WorldBounds(5, 8, 1, 3)]

GenScenarios ==
    {PawnGame, CastleGame, CheckGame, GenPromoGame, GenHuygenGame, GenRoseGame,
     GenCornerGame, SeeBlockedRiderGame}

InitGen ==
    \E s \in GenScenarios :
        /\ game = s.game
        /\ world = s.world
        /\ line = <<>>
        /\ tt = TranspositionTable_new(1)
        /\ tt_ops = 0
        /\ see = NoSee
        /\ picker = NoPicker

\* make_move on one of the moves get_legal_moves returns.
DoGeneratedMove ==
    /\ Len(line) < GenPly
    /\ \E m \in GameLegalMoves(game) :
          LET made == make_move(game, m)
          IN /\ game' = made.game
             /\ line' = Append(line, [kind |-> "move", move |-> m, undo |-> made.undo,
                                      before |-> game])
    /\ UNCHANGED <<world, tt, tt_ops, see, picker>>

NextGen == DoGeneratedMove

SpecGen == InitGen /\ [][NextGen]_vars

\* The generated moves of the side to move by the kind of move: castling
\* moves, and the moves of the pieces of the given kinds.
CastlingMoves(g) == {m \in GameLegalMoves(g) : m.rook_coord # {}}
MovesOfKinds(g, kinds) ==
    {m \in GameLegalMoves(g) : m.piece.piece_type \in kinds /\ m.rook_coord = {}}

\* C15: with the world bounds set, no generated move of any piece kind has a
\* destination outside them.
C15_MovesInBounds == \A m \in GameLegalMoves(game) : in_bounds(m.to[1], m.to[2])

\* The generators that test in_bounds (compass, leaper and sliding moves)
\* stay inside.
C15_CheckedGeneratorsInBounds ==
    \A m \in GameLegalMoves(game) :
        (m.rook_coord = {} /\ m.piece.piece_type \notin {"Pawn", "Huygen", "Rose"})
            => in_bounds(m.to[1], m.to[2])

\* A pawn, a Huygen, a Rose and a castling king each have a generated move
\* that leaves the world.
C15_PawnLeaves ==
    \E m \in MovesOfKinds(game, {"Pawn"}) : ~in_bounds(m.to[1], m.to[2])
C15_HuygenLeaves ==
    \E m \in MovesOfKinds(game, {"Huygen"}) : ~in_bounds(m.to[1], m.to[2])
C15_RoseLeaves ==
    \E m \in MovesOfKinds(game, {"Rose"}) : ~in_bounds(m.to[1], m.to[2])
C15_CastlingLeaves ==
    \E m \in CastlingMoves(game) : ~in_bounds(m.to[1], m.to[2])


\* C16: every generated move lands on an empty square or on a piece that is
\* neither of the mover's colour nor a Void.
C16_DestinationsCapturable ==
    \A m \in GameLegalMoves(game) :
        m.to \in DOMAIN game.board
            => /\ game.board[m.to].color # m.piece.color
               /\ game.board[m.to].piece_type # "Void"

\* The same for the moves that are neither castling moves nor moves of a
\* Knightrider.
C16_OtherDestinationsCapturable ==
    \A m \in GameLegalMoves(game) :
        (m.rook_coord = {} /\ m.piece.piece_type # "Knightrider" /\ m.to \in DOMAIN game.board)
            => /\ game.board[m.to].color # m.piece.color
               /\ game.board[m.to].piece_type # "Void"

\* A Knightrider move whose destination holds a piece of its own colour.
C16_RiderOntoOwnPiece ==
    \E m \in MovesOfKinds(game, {"Knightrider"}) :
        m.to \in DOMAIN game.board /\ game.board[m.to].color = m.piece.color

\* A castling move whose destination holds a piece of the king's colour.
C16_CastlingOntoOwnPiece ==
    \E m \in CastlingMoves(game) :
        m.to \in DOMAIN game.board /\ game.board[m.to].color = m.piece.color

\* A generated move takes an Obstacle.
C16_ObstacleTaken ==
    \E m \in GameLegalMoves(game) :
        m.to \in DOMAIN game.board /\ game.board[m.to].piece_type = "Obstacle"


\* The generated pawn moves of the side to move, and those among them that
\* are a double step or an en passant capture.
PawnMoves(g) == MovesOfKinds(g, {"Pawn"})
IsDoubleStep(m) == Abs(m.to[2] - m.from[2]) = 2
IsEnPassant(g, m) == m.to[1] # m.from[1] /\ m.to \notin DOMAIN g.board

\* What C17 asks of the pawn move m of the position g.
PromotionAsRuled(g, m) ==
    LET ranks == promotion_ranks_of(g.game_rules, m.piece.color)
        kinds == promotion_pieces_of(g.game_rules)
    IN IF m.to[2] \in ranks
       THEN /\ m.promotion # {}
            /\ m.promotion \subseteq kinds
            /\ \A k \in kinds : [m EXCEPT !.promotion = {k}] \in PawnMoves(g)
       ELSE m.promotion = {}

\* C17: a generated pawn move to a promotion rank of the pawn's colour
\* carries a promotion kind, one move for each allowed kind; a pawn move to
\* any other rank carries none.
C17_PromotionMoves == \A m \in PawnMoves(game) : PromotionAsRuled(game, m)

\* The same for single steps and ordinary captures.
C17_SingleStepPromotionMoves ==
    \A m \in PawnMoves(game) :
        (~IsDoubleStep(m) /\ ~IsEnPassant(game, m)) => PromotionAsRuled(game, m)

\* A double step onto a promotion rank, generated without a promotion.
C17_DoubleStepOntoPromotionRank ==
    \E m \in PawnMoves(game) :
        /\ IsDoubleStep(m)
        /\ m.to[2] \in promotion_ranks_of(game.game_rules, m.piece.color)
        /\ m.promotion = {}

\* A capture onto the promotion rank generated once for each allowed kind.
C17_CapturePromotes ==
    \E m \in PawnMoves(game) :
        /\ m.to \in DOMAIN game.board
        /\ {n.promotion : n \in {n \in PawnMoves(game) : n.from = m.from /\ n.to = m.to}}
             = {{"q"}, {"n"}}


\* ------------------------------------------------- special rights at work

\* The set-up position of the line played, and the positions gone through
\* since.
SetUpPosition == IF Len(line) = 0 THEN game ELSE line[1].before
PositionsSince == {line[i].before : i \in DOMAIN line} \cup {game}

\* The square c has held the piece of the set-up position all along.
Unmoved(c) ==
    /\ c \in DOMAIN SetUpPosition.board
    /\ \A g \in PositionsSince :
          c \in DOMAIN g.board /\ g.board[c] = SetUpPosition.board[c]

\* C18: in every state reached by make_move from a set-up position, every
\* coordinate in special_rights holds a piece that has not moved since set-up:
\* the coordinate of a piece that moves, is relocated by castling or is
\* captured is in special_rights no longer.
C18_RightsOccupantsUnmoved ==
    \A c \in game.special_rights : c \in SetUpPosition.special_rights /\ Unmoved(c)

\* The same but for the square a castling partner has left.
C18_RightsOccupantsUnmovedButPartner ==
    \A c \in game.special_rights :
        \/ c \in SetUpPosition.special_rights /\ Unmoved(c)
        \/ \E i \in DOMAIN line : line[i].move.rook_coord = {c}

\* A castling partner has left its square and the square is still in
\* special_rights.
C18_PartnerRightKept ==
    \E i \in DOMAIN line :
        \E c \in line[i].move.rook_coord :
            /\ c \in game.special_rights
            /\ c \notin DOMAIN game.board

\* A piece with a special right has moved, another has been captured, and
\* neither square is in special_rights.
C18_MoverRightLost ==
    \E i \in DOMAIN line :
        /\ line[i].move.from \in line[i].before.special_rights
        /\ line[i].move.from \notin game.special_rights
C18_CapturedRightLost ==
    \E i \in DOMAIN line :
        /\ line[i].move.to \in line[i].before.special_rights
        /\ line[i].move.to \in DOMAIN line[i].before.board
        /\ line[i].move.rook_coord = {}
        /\ line[i].move.to \notin game.special_rights


\* ------------------------------------------------------------ piece counts

\* The line started from a set-up position whose piece counts were recomputed.
SetUpCounted ==
    \E s \in Scenarios \cup GenScenarios :
        /\ s.world = world
        /\ (Len(line) > 0 => line[1].before = s.game)
        /\ s.game.white_piece_count = recompute_count(s.game.board, "White")
        /\ s.game.black_piece_count = recompute_count(s.game.board, "Black")

CountsMatchBoard ==
    /\ game.white_piece_count = recompute_count(game.board, "White")
    /\ game.black_piece_count = recompute_count(game.board, "Black")

\* A castling move of the line landed on a piece of the king's own colour.
CastledOntoOwnPiece ==
    \E i \in DOMAIN line :
        /\ line[i].move.rook_coord # {}
        /\ line[i].move.to \in DOMAIN line[i].before.board

\* C19: from a state whose piece counts were recomputed, after any sequence
\* of make_move and undo_move white_piece_count and black_piece_count are the
\* numbers of White and Black pieces on the board.  (That no two pieces share
\* a coordinate is how the board is kept: a map from coordinates to pieces.)
C19_CountsMatchBoard == SetUpCounted => CountsMatchBoard

\* The same for the lines without a castling move onto an own piece.
C19_CountsMatchBoardUnlessCastledOnto ==
    (SetUpCounted /\ ~CastledOntoOwnPiece) => CountsMatchBoard

\* A capture made and the counts still right; a castling move onto the
\* partner and a count one short.
C19_CaptureCounted ==
    /\ SetUpCounted
    /\ \E i \in DOMAIN line : line[i].undo.captured_piece # {} /\ line[i].move.rook_coord = {}
    /\ ~CastledOntoOwnPiece
    /\ CountsMatchBoard
C19_CastlingMiscounted ==
    /\ SetUpCounted
    /\ CastledOntoOwnPiece
    /\ game.white_piece_count = recompute_count(game.board, "White") - 1


\* ----------------------------------------------- evaluation (evaluation.rs)

WHITE_ENEMY_LINE == 7
BLACK_ENEMY_LINE == 2
ROOK_BEHIND_ENEMY_BONUS == 30
QUEEN_BEHIND_ENEMY_BONUS == 25
PAWN_SHIELD_BONUS == 15
KNIGHT_CENTRALITY_BONUS == 10
BISHOP_PAIR_BONUS == 30
ROOK_OPEN_FILE_BONUS == 25
ROOK_SEMI_OPEN_BONUS == 15
PASSED_PAWN_BONUS == 8
DOUBLED_PAWN_PENALTY == 3
ISOLATED_PAWN_PENALTY == 2
KING_TROPISM_BONUS == 3

\* The most pieces is_insufficient_material looks at.
INSUFFICIENT_MAX_PIECES == 10

MaxOf2(a, b) == IF a > b THEN a ELSE b
MinOf2(a, b) == IF a < b THEN a ELSE b

\* The squares of the pieces of a colour and of the given kinds.
squares_of(board, color, kinds) ==
    {c \in DOMAIN board : board[c].color = color /\ board[c].piece_type \in kinds}

\* find_kings: the square of the King of a colour, if any (the positions
\* evaluated here hold at most one King a side).
find_king(board, color) == squares_of(board, color, {"King"})

manhattan(a, b) == Abs(a[1] - b[1]) + Abs(a[2] - b[2])

\* evaluate_pieces with evaluate_rook, evaluate_queen, evaluate_knight,
\* evaluate_bishop, evaluate_pawn_position and count_pawns_on_file.
evaluate_pieces(board, white_king, black_king) ==
    LET enemy_king(color) == IF color = "White" THEN black_king ELSE white_king
        behind(c, color) == \/ color = "White" /\ c[2] > WHITE_ENEMY_LINE
                            \/ color = "Black" /\ c[2] < BLACK_ENEMY_LINE
        pawns_on_file(file, own, color) ==
            Cardinality({c \in DOMAIN board : /\ c[1] = file
                                              /\ board[c].piece_type = "Pawn"
                                              /\ (board[c].color = color) = own})
        rook(c, color) ==
            (IF behind(c, color) THEN ROOK_BEHIND_ENEMY_BONUS ELSE 0)
            + (IF pawns_on_file(c[1], TRUE, color) # 0 THEN 0
               ELSE IF pawns_on_file(c[1], FALSE, color) = 0 THEN ROOK_OPEN_FILE_BONUS
               ELSE ROOK_SEMI_OPEN_BONUS)
            + (IF enemy_king(color) = {} THEN 0
               ELSE ((20 - MinOf2(manhattan(c, TheOne(enemy_king(color))), 20))
                       * KING_TROPISM_BONUS) \div 2)
        queen(c, color) ==
            (IF behind(c, color) THEN QUEEN_BEHIND_ENEMY_BONUS ELSE 0)
            + (IF enemy_king(color) = {} THEN 0
               ELSE (15 - MinOf2(manhattan(c, TheOne(enemy_king(color))), 15))
                      * KING_TROPISM_BONUS)
        knight(c, color) ==
            (IF manhattan(c, <<4, 4>>) <= 2 THEN KNIGHT_CENTRALITY_BONUS * 2
             ELSE IF manhattan(c, <<4, 4>>) <= 4 THEN KNIGHT_CENTRALITY_BONUS ELSE 0)
            + (IF enemy_king(color) # {} /\ manhattan(c, TheOne(enemy_king(color))) <= 3
               THEN KING_TROPISM_BONUS * 3 ELSE 0)
        bishop(c) == IF Abs(c[1] - c[2]) <= 1 \/ Abs(c[1] + c[2] - 8) <= 1 THEN 5 ELSE 0
        pawn(c, color) ==
            (IF color = "White" THEN MaxOf2(c[2] - 2, 0) * 3 ELSE MaxOf2(7 - c[2], 0) * 3)
            + (IF c[1] >= 3 /\ c[1] <= 5 THEN 5 ELSE 0)
        piece_score(c) ==
            LET t == board[c].piece_type
                color == board[c].color
            IN CASE t = "Rook" -> rook(c, color)
                 [] t = "Queen" -> queen(c, color)
                 [] t = "Knight" -> knight(c, color)
                 [] t = "Bishop" -> bishop(c)
                 [] t = "Pawn" -> pawn(c, color)
                 [] OTHER -> 0
        white_bishops == Cardinality(squares_of(board, "White", {"Bishop"}))
        black_bishops == Cardinality({c \in DOMAIN board : /\ board[c].piece_type = "Bishop"
                                                          /\ board[c].color # "White"})
    IN SumOver([c \in DOMAIN board |-> IF board[c].color = "White" THEN piece_score(c)
                                       ELSE -piece_score(c)],
               DOMAIN board)
       + (IF white_bishops >= 2 THEN BISHOP_PAIR_BONUS ELSE 0)
       - (IF black_bishops >= 2 THEN BISHOP_PAIR_BONUS ELSE 0)

\* evaluate_king_safety with evaluate_king_shelter.
evaluate_king_safety(board, white_king, black_king) ==
    LET shelter(king, color) ==
            LET around == {d \in (-1..1) \X (-1..1) :
                             /\ d # <<0, 0>>
                             /\ <<king[1] + d[1], king[2] + d[2]>>
                                  \in squares_of(board, color, {"Pawn"})}
                pawns == SumOver([d \in around |->
                                    IF \/ color = "White" /\ d[2] > 0
                                       \/ color = "Black" /\ d[2] < 0
                                    THEN PAWN_SHIELD_BONUS ELSE PAWN_SHIELD_BONUS \div 2],
                                 around)
                safety == IF pawns = 0 THEN -15 ELSE pawns
                home_y == IF color = "White" THEN 2 ELSE 7
                castled == IF king = <<6, home_y>> THEN 20
                           ELSE IF /\ king[1] >= 6 /\ king[1] <= 7
                                   /\ (IF color = "White" THEN king[2] <= 2 ELSE king[2] >= 7)
                                THEN 10 ELSE 0
            IN safety + castled
    IN (IF white_king = {} THEN 0 ELSE shelter(TheOne(white_king), "White"))
       - (IF black_king = {} THEN 0 ELSE shelter(TheOne(black_king), "Black"))

\* evaluate_pawn_structure with is_passed_pawn.  Every pawn that is not
\* White counts as Black, as in the code.
evaluate_pawn_structure(board) ==
    LET all_pawns == {c \in DOMAIN board : board[c].piece_type = "Pawn"}
        white_pawns == {c \in all_pawns : board[c].color = "White"}
        black_pawns == all_pawns \ white_pawns
        doubled(pawns) == Cardinality(pawns) - Cardinality({c[1] : c \in pawns})
        passed(c, color, enemy_pawns) ==
            ~\E e \in enemy_pawns :
                /\ Abs(e[1] - c[1]) <= 1
                /\ IF color = "White" THEN e[2] > c[2] ELSE e[2] < c[2]
        passed_bonus(pawns, color, enemy_pawns) ==
            SumOver([c \in pawns |->
                        IF passed(c, color, enemy_pawns)
                        THEN PASSED_PAWN_BONUS
                             + (IF color = "White" THEN MaxOf2(c[2] - 2, 0)
                                ELSE MaxOf2(7 - c[2], 0)) * 5
                        ELSE 0],
                    pawns)
        isolated(pawns) ==
            Cardinality({c \in pawns : ~\E d \in pawns : Abs(d[1] - c[1]) = 1})
    IN - DOUBLED_PAWN_PENALTY * doubled(white_pawns)
       + DOUBLED_PAWN_PENALTY * doubled(black_pawns)
       + passed_bonus(white_pawns, "White", black_pawns)
       - passed_bonus(black_pawns, "Black", white_pawns)
       - ISOLATED_PAWN_PENALTY * isolated(white_pawns)
       + ISOLATED_PAWN_PENALTY * isolated(black_pawns)

\* needs_king_for_mate.
needs_king_for_mate(board, color) ==
    LET n(kinds) == Cardinality(squares_of(board, color, kinds))
        queens == n({"Queen", "RoyalQueen"})
        rooks == n({"Rook"})
        bishops == n({"Bishop"})
        knights == n({"Knight"})
        chancellors == n({"Chancellor"})
        archbishops == n({"Archbishop"})
        amazons == n({"Amazon"})
        hawks == n({"Hawk"})
        guards == n({"Guard"})
    IN ~(\/ rooks >= 3
         \/ chancellors >= 2
         \/ queens >= 2
         \/ amazons >= 1
         \/ archbishops >= 3
         \/ hawks >= 4
         \/ bishops >= 6
         \/ queens >= 1 /\ chancellors >= 1
         \/ queens >= 1 /\ bishops >= 2
         \/ queens >= 1 /\ knights >= 2
         \/ queens >= 1 /\ guards >= 2
         \/ queens >= 1 /\ rooks >= 1 /\ (bishops >= 1 \/ knights >= 1)
         \/ chancellors >= 1 /\ bishops >= 2
         \/ rooks >= 2 /\ (bishops >= 2 \/ knights >= 2 \/ guards >= 1)
         \/ rooks >= 1 /\ bishops >= 3
         \/ rooks >= 1 /\ knights >= 4
         \/ rooks >= 1 /\ guards >= 2)

\* evaluate_lone_king_endgame.
evaluate_lone_king_endgame(board, our_king, enemy_king, winning_color) ==
    LET pieces == {c \in DOMAIN board : /\ board[c].color = winning_color
                                        /\ ~is_royal(board[c].piece_type)}
        pos(v) == IF v > 0 THEN v ELSE 0
        fence(d, base, step) == pos(base - Abs(MinOf2(MaxOf2(d, 1), 8) - 3) * step)
        piece_bonus(c) ==
            LET t == board[c].piece_type
                dx_abs == Abs(c[1] - enemy_king[1])
                dy_abs == Abs(c[2] - enemy_king[2])
                man == dx_abs + dy_abs
            IN CASE t \in {"Rook", "Chancellor", "Queen", "Amazon"} ->
                      (IF c[1] = enemy_king[1] THEN fence(dy_abs, 70, 12) ELSE 0)
                      + (IF c[2] = enemy_king[2] THEN fence(dx_abs, 70, 12) ELSE 0)
                      + (IF c[1] # enemy_king[1] /\ c[2] # enemy_king[2]
                         THEN pos(12 - MinOf2(man, 12)) * 2 ELSE 0)
                 [] t \in {"Bishop", "Archbishop"} ->
                      IF dx_abs = dy_abs /\ dx_abs > 0
                      THEN pos(45 - Abs(MinOf2(dx_abs, 8) - 3) * 10)
                      ELSE pos(10 - MinOf2(man, 10)) * 2
                 [] OTHER -> pos(8 - MinOf2(man, 8))
        sliders == Cardinality({c \in pieces : board[c].piece_type
                                                 \in {"Rook", "Chancellor", "Queen", "Amazon"}})
        king_dist == manhattan(our_king, enemy_king)
        dx == Abs(our_king[1] - enemy_king[1])
        dy == Abs(our_king[2] - enemy_king[2])
    IN SumOver([c \in pieces |-> piece_bonus(c)], pieces)
       + (IF needs_king_for_mate(board, winning_color)
          THEN pos(16 - MinOf2(king_dist, 16)) * 6
               + (IF (dx = 2 /\ dy = 0) \/ (dx = 0 /\ dy = 2) THEN 40 ELSE 0)
          ELSE pos(10 - MinOf2(king_dist, 10)))
       + (IF sliders >= 2 THEN 80 ELSE 0)

\* has_sufficient_mating_material: the side can force mate.
has_sufficient_mating_material(board, color, has_our_king) ==
    LET n(kinds) == Cardinality(squares_of(board, color, kinds))
        queens == n({"Queen", "RoyalQueen"})
        rooks == n({"Rook"})
        bishops == n({"Bishop"})
        knights == n({"Knight"})
        chancellors == n({"Chancellor"})
        archbishops == n({"Archbishop"})
        hawks == n({"Hawk"})
        guards == n({"Guard"})
        pawns == n({"Pawn"})
        amazons == n({"Amazon"})
        knightriders == n({"Knightrider"})
        huygens == n({"Huygen"})
        light_bishops == Cardinality({c \in squares_of(board, color, {"Bishop"}) :
                                        rem(c[1] + c[2], 2) = 0})
        dark_bishops == bishops - light_bishops
        one_colour == light_bishops = 0 \/ dark_bishops = 0
        none(counts) == \A i \in DOMAIN counts : counts[i] = 0
        insufficient_with_king ==
            \/ queens = 1 /\ none(<<rooks, bishops, knights, chancellors, archbishops, pawns, hawks, guards>>)
            \/ chancellors = 1 /\ none(<<queens, rooks, bishops, knights, archbishops, pawns, hawks, guards>>)
            \/ guards = 1 /\ none(<<queens, rooks, bishops, knights, chancellors, archbishops, pawns, hawks>>)
            \/ knights <= 3 /\ none(<<queens, rooks, bishops, chancellors, archbishops, pawns, hawks, guards>>)
            \/ hawks = 2 /\ none(<<queens, rooks, bishops, knights, chancellors, archbishops, pawns, guards>>)
            \/ pawns <= 3 /\ none(<<queens, rooks, bishops, knights, chancellors, archbishops, hawks, guards>>)
            \/ knightriders = 2 /\ none(<<queens, rooks, bishops, knights, chancellors, archbishops, pawns, hawks, guards>>)
            \/ bishops > 0 /\ one_colour /\ none(<<queens, rooks, knights, chancellors, archbishops, pawns, hawks, guards>>)
            \/ /\ rooks = 1 /\ (knights = 1 \/ (bishops = 1 /\ knights = 0))
               /\ none(<<queens, chancellors, archbishops, pawns, hawks, guards>>)
               /\ knights + bishops = 1
            \/ /\ archbishops = 1 /\ (bishops = 1 \/ knights = 1)
               /\ none(<<queens, rooks, chancellors, pawns, hawks, guards>>)
               /\ bishops + knights = 1
            \/ knights <= 2 /\ bishops > 0 /\ one_colour /\ none(<<queens, rooks, chancellors, archbishops, pawns, hawks, guards>>)
            \/ hawks = 1 /\ bishops = 1 /\ none(<<queens, rooks, knights, chancellors, archbishops, pawns, guards>>)
        sufficient_without_king ==
            \/ queens >= 1 /\ (rooks >= 1 \/ knights >= 1 \/ bishops >= 1 \/ pawns >= 1)
            \/ queens >= 2
            \/ rooks >= 2 /\ (bishops >= 1 \/ knights >= 1 \/ pawns >= 1 \/ guards >= 1)
            \/ archbishops >= 2
            \/ chancellors >= 1 /\ (guards >= 1 \/ knights >= 1 \/ rooks >= 1)
            \/ knights >= 4
            \/ /\ light_bishops >= 1 /\ dark_bishops >= 1 /\ bishops >= 2
               /\ (knights >= 2 \/ bishops >= 4)
            \/ hawks >= 3
            \/ rooks >= 1 /\ guards >= 1
            \/ rooks >= 1 /\ knights >= 2
            \/ knightriders >= 3
            \/ pawns >= 6
            \/ huygens >= 4
            \/ guards >= 2
    IN IF amazons >= 1 THEN TRUE
       ELSE IF has_our_king THEN ~insufficient_with_king
       ELSE sufficient_without_king

\* Neither side can force mate, as has_sufficient_mating_material tells it.
neither_can_mate(board) ==
    LET has_king(color) == \E c \in DOMAIN board : /\ is_royal(board[c].piece_type)
                                                   /\ board[c].color = color
    IN /\ ~has_sufficient_mating_material(board, "White", has_king("White"))
       /\ ~has_sufficient_mating_material(board, "Black", has_king("Black"))

\* is_insufficient_material: boards of ten pieces and more are never looked
\* at.
is_insufficient_material(board) ==
    IF Cardinality(DOMAIN board) >= INSUFFICIENT_MAX_PIECES THEN FALSE
    ELSE neither_can_mate(board)

\* evaluate, with is_lone_king.
evaluate(g) ==
    LET white_king == find_king(g.board, "White")
        black_king == find_king(g.board, "Black")
        is_lone_king(color) ==
            \A c \in DOMAIN g.board :
                g.board[c].color = color => g.board[c].piece_type = "King"
        centre == <<4, 4>>
        score ==
            IF is_lone_king("Black") /\ black_king # {}
            THEN g.material_score
                 + evaluate_lone_king_endgame(g.board,
                       IF white_king # {} THEN TheOne(white_king) ELSE centre,
                       TheOne(black_king), "White")
            ELSE IF is_lone_king("White") /\ white_king # {}
            THEN g.material_score
                 - evaluate_lone_king_endgame(g.board,
                       IF black_king # {} THEN TheOne(black_king) ELSE centre,
                       TheOne(white_king), "Black")
            ELSE g.material_score
                 + evaluate_pieces(g.board, white_king, black_king)
                 + evaluate_king_safety(g.board, white_king, black_king)
                 + evaluate_pawn_structure(g.board)
    IN IF is_insufficient_material(g.board) THEN 0
       ELSE IF g.turn = "Black" THEN -score ELSE score


\* ------------------------------------------------- positions to evaluate

\* King versus king.
EvalKingsGame ==
    [game |-> SetUp({<<<<2, 2>>, Piece("King", "White")>>,
                     <<<<4, 4>>, Piece("King", "Black")>>},
                    {}, "White", TRUE),
     world |-> WorldBounds(1, 5, 1, 5)]

\* King and two knights versus king.
EvalTwoKnightsGame ==
    [game |-> SetUp({<<<<2, 2>>, Piece("King", "White")>>,
                     <<<<3, 2>>, Piece("Knight", "White")>>,
                     <<<<2, 3>>, Piece("Knight", "White")>>,
                     <<<<5, 5>>, Piece("King", "Black")>>},
                    {}, "White", TRUE),
     world |-> WorldBounds(1, 5, 1, 5)]

\* King and eight bishops, all on squares of one colour, versus king: ten
\* pieces.
EvalBishopsGame ==
    [game |-> SetUp({<<<<2, 1>>, Piece("King", "White")>>,
                     <<<<1, 1>>, Piece("Bishop", "White")>>,
                     <<<<1, 3>>, Piece("Bishop", "White")>>,
                     <<<<1, 5>>, Piece("Bishop", "White")>>,
                     <<<<2, 2>>, Piece("Bishop", "White")>>,
                     <<<<2, 4>>, Piece("Bishop", "White")>>,
                     <<<<3, 1>>, Piece("Bishop", "White")>>,
                     <<<<3, 3>>, Piece("Bishop", "White")>>,
                     <<<<4, 4>>, Piece("Bishop", "White")>>,
                     <<<<5, 4>>, Piece("King", "Black")>>},
                    {}, "Black", TRUE),
     world |-> WorldBounds(1, 5, 1, 5)]

\* King versus king among eight Obstacles: ten pieces.
EvalObstaclesGame ==
    [game |-> SetUp({<<<<2, 2>>, Piece("King", "White")>>,
                     <<<<4, 3>>, Piece("King", "Black")>>}
                    \cup {<<<<x, 5>>, Piece("Obstacle", "Neutral")>> : x \in 1..5}
                    \cup {<<<<5, y>>, Piece("Obstacle", "Neutral")>> : y \in 1..3},
                    {}, "White", TRUE),
     world |-> WorldBounds(1, 5, 1, 5)]

\* King and rook versus king: mating material.
EvalRookGame ==
    [game |-> SetUp({<<<<2, 2>>, Piece("King", "White")>>,
                     <<<<1, 4>>, Piece("Rook", "White")>>,
                     <<<<4, 5>>, Piece("King", "Black")>>},
                    {}, "Black", TRUE),
     world |-> WorldBounds(1, 5, 1, 5)]

\* Pieces and pawns on both sides.
EvalMiddleGame ==
    [game |-> SetUp({<<<<2, 1>>, Piece("King", "White")>>,
                     <<<<1, 1>>, Piece("Rook", "White")>>,
                     <<<<2, 2>>, Piece("Pawn", "White")>>,
                     <<<<3, 3>>, Piece("Bishop", "White")>>,
                     <<<<4, 5>>, Piece("King", "Black")>>,
                     <<<<5, 5>>, Piece("Queen", "Black")>>,
                     <<<<4, 4>>, Piece("Pawn", "Black")>>,
                     <<<<2, 4>>, Piece("Knight", "Black")>>},
                    {}, "White", TRUE),
     world |-> WorldBounds(1, 5, 1, 5)]

EvalScenarios ==
    {EvalKingsGame, EvalTwoKnightsGame, EvalBishopsGame, EvalObstaclesGame,
     EvalRookGame, EvalMiddleGame}

InitEval ==
    \E s \in EvalScenarios :
        /\ game = s.game
        /\ world = s.world
        /\ line = <<>>
        /\ tt = TranspositionTable_new(1)
        /\ tt_ops = 0
        /\ see = NoSee
        /\ picker = NoPicker

SpecEval == InitEval /\ [][NextGen]_vars

\* The board holds the given number of pieces of the kind and colour.
HoldsPieces(n, kind, color) == Cardinality(squares_of(game.board, color, {kind})) = n

\* The board holds nothing but the two kings, or nothing but the two kings
\* and two white knights.
KingVersusKing ==
    /\ Cardinality(DOMAIN game.board) = 2
    /\ HoldsPieces(1, "King", "White") /\ HoldsPieces(1, "King", "Black")

TwoKnightsVersusKing ==
    /\ Cardinality(DOMAIN game.board) = 4
    /\ HoldsPieces(1, "King", "White") /\ HoldsPieces(1, "King", "Black")
    /\ HoldsPieces(2, "Knight", "White")

\* C20: evaluate returns 0 whenever neither side has sufficient mating
\* material, in particular for king versus king and for king plus two knights
\* versus king.
C20_InsufficientMaterialIsZero ==
    /\ neither_can_mate(game.board) => evaluate(game) = 0
    /\ KingVersusKing => evaluate(game) = 0
    /\ TwoKnightsVersusKing => evaluate(game) = 0

\* What holds of C20: with fewer than ten pieces on the board, evaluate
\* returns 0 whenever neither side has sufficient mating material.
C20_InsufficientMaterialIsZeroBelowTen ==
    (Cardinality(DOMAIN game.board) < INSUFFICIENT_MAX_PIECES /\ neither_can_mate(game.board))
        => evaluate(game) = 0

\* The two positions C20 names are evaluated as 0.
C20_NamedPositionsAreZero ==
    (KingVersusKing \/ TwoKnightsVersusKing) => evaluate(game) = 0

\* The cases of C20 are reached: king versus king, king and two knights
\* versus king after a move, and a position neither side can win that
\* evaluate scores for White.
C20_KingsReached == KingVersusKing /\ line # <<>> /\ evaluate(game) = 0

C20_TwoKnightsReached == TwoKnightsVersusKing /\ line # <<>> /\ evaluate(game) = 0

C20_TenPiecesScored ==
    /\ neither_can_mate(game.board)
    /\ Cardinality(DOMAIN game.board) >= INSUFFICIENT_MAX_PIECES
    /\ evaluate(game) # 0

\* King versus king among Obstacles is scored as well.
C20_KingsAmongObstaclesScored ==
    /\ \A c \in DOMAIN game.board : game.board[c].piece_type \in {"King", "Obstacle"}
    /\ HoldsPieces(1, "King", "White") /\ HoldsPieces(1, "King", "Black")
    /\ evaluate(game) # 0

\* With mating material on the board evaluate takes both of its other
\* branches.
C20_OtherBranchesTaken ==
    /\ ~neither_can_mate(game.board)
    /\ evaluate(game) # 0


\* ------------------------------------------- perft from the standard start

\* The standard starting position in a world of files 1..8 and ranks 1..8.
InitPerft ==
    /\ game = StandardGame
    /\ world = WorldBounds(1, 8, 1, 8)
    /\ line = <<>>
    /\ tt = TranspositionTable_new(1)
    /\ tt_ops = 0
    /\ see = NoSee
    /\ picker = NoPicker

SpecPerft == InitPerft /\ [][NextGen]_vars

AtStandardStart == line = <<>> /\ game = StandardGame /\ world = WorldBounds(1, 8, 1, 8)

\* C21: from the standard starting position with the world confined to files
\* 1..8 and ranks 1..8, perft(1) = 20, perft(2) = 400 and perft(3) = 8902.
C21_PerftReferenceValues ==
    AtStandardStart => /\ perft(game, 1).nodes = 20
                       /\ perft(game, 2).nodes = 400
                       /\ perft(game, 3).nodes = 8902

\* The case of C21: perft has run on the standard start and counted its
\* twenty first moves.
C21_Witness == AtStandardStart /\ perft(game, 1).nodes = 20

\* After each first move perft(1) counts the twenty replies, and perft
\* leaves the position it was called on.
C21_RepliesCounted ==
    Len(line) = 1 => perft(game, 1).nodes = 20 /\ perft(game, 1).game = game


\* -------------------------------- staged move picker (search/movegen.rs)

GOOD_QUIET_THRESHOLD == -14000

\* The score an evasion capture starts from.
EVASION_CAPTURE_BASE == 30000000

\* The bonus of a quiet move that gives check.
CHECK_BONUS == 16384

\* A set as a sequence, and a sequence reversed: the two orders in which
\* the model lets a generator hand out its moves.
RECURSIVE SeqOfSet(_)
SeqOfSet(S) ==
    IF S = {} THEN <<>>
    ELSE LET x == CHOOSE x \in S : TRUE IN <<x>> \o SeqOfSet(S \ {x})

Reverse(s) == [i \in 1..Len(s) |-> s[Len(s) + 1 - i]]

\* GameState::is_in_check that never finds a check.
is_in_check_never(g) == FALSE

\* GameState::is_in_check: a royal piece of the side to move is attacked.
is_in_check(g) ==
    \E c \in DOMAIN g.board :
        /\ g.board[c].color = g.turn
        /\ is_royal(g.board[c].piece_type)
        /\ is_square_attacked(g.board, c, opponent(g.turn), TRUE)

\* The move generators of the picker, each a choice among the generated
\* moves: get_evasion_moves_into keeps the moves that leave no royal piece
\* of the mover attacked, get_quiescence_captures the moves that take a
\* piece, en passant among them, get_quiet_moves_into the moves that take
\* nothing.
takes_piece(g, m) ==
    \/ m.to \in DOMAIN g.board
    \/ m.piece.piece_type = "Pawn" /\ m.to[1] # m.from[1]

generated_moves(g, kind) ==
    {m \in GameLegalMoves(g) :
        CASE kind = "evasion" -> ~is_move_illegal(make_move(g, m).game)
          [] kind = "capture" -> takes_piece(g, m)
          [] kind = "quiet" -> ~takes_piece(g, m)}

get_evasion_moves(g) == generated_moves(g, "evasion")

get_quiescence_captures(g) == generated_moves(g, "capture")

get_quiet_moves(g) == generated_moves(g, "quiet")

\* StagedMoveGen::new at ply 0, with_exclusion when excluded is a move.  The
\* killers are read from the Searcher.
StagedMoveGen_new(tt_move, searcher, excluded) ==
    [stage |-> "TTMove",
     tt_move |-> tt_move,
     moves |-> <<>>,
     cur |-> 0,
     end_bad_captures |-> 0,
     end_captures |-> 0,
     end_generated |-> 0,
     killer1 |-> searcher.killer1,
     killer2 |-> searcher.killer2,
     skip_quiets |-> FALSE,
     excluded_move |-> excluded]

\* skip_quiet_moves.
skip_quiet_moves(p) == [p EXCEPT !.skip_quiets = TRUE]

\* moves_match: a move against an Option<Move>.
moves_match(a, b) ==
    \E bm \in b : a.from = bm.from /\ a.to = bm.to /\ a.promotion = bm.promotion

\* is_capture: the destination is occupied.
is_capture(g, m) == m.to \in DOMAIN g.board

\* is_pseudo_legal.
is_pseudo_legal(g, m) ==
    LET here == get_piece(g.board, m.from[1], m.from[2])
        dir == IF m.to[1] > m.from[1] THEN 1 ELSE -1
        occupied(x, y) == <<x, y>> \in DOMAIN g.board
    IN IF here = {} THEN FALSE
       ELSE LET piece == TheOne(here)
            IN IF piece.color # g.turn \/ piece.piece_type # m.piece.piece_type
               THEN FALSE
               ELSE IF piece.piece_type = "King" /\ Abs(m.to[1] - m.from[1]) > 1
               THEN /\ m.rook_coord # {}
                    /\ \E r \in m.rook_coord :
                          r \in DOMAIN g.board /\ g.board[r].color = g.turn
                    /\ ~occupied(m.from[1] + dir, m.from[2])
                    /\ ~occupied(m.to[1], m.from[2])
                    /\ ~(dir < 0 /\ occupied(m.from[1] - 3, m.from[2]))
               ELSE TRUE

\* score_capture: captureHistory + 7 * the victim's value.
score_capture(g, searcher, m) ==
    IF m.to \in DOMAIN g.board
    THEN searcher.capture_history + 7 * get_piece_value(g.board[m.to].piece_type)
    ELSE 0

\* move_gives_check_fast: by the squares the move lands on, blockers not
\* looked at.  check_squares holds the squares from which a knight or a pawn
\* of the mover attacks the enemy King.
move_gives_check_fast(g, m) ==
    LET pt == m.piece.piece_type
        color == m.piece.color
        kings == {c \in DOMAIN g.board : /\ g.board[c].piece_type = "King"
                                         /\ g.board[c].color = opponent(color)}
        pawn_dir == IF color = "White" THEN 1 ELSE -1
    IN \E k \in kings :
          LET dx == m.to[1] - k[1]
              dy == m.to[2] - k[2]
              knightly == (Abs(dx) = 1 /\ Abs(dy) = 2) \/ (Abs(dx) = 2 /\ Abs(dy) = 1)
          IN IF pt = "Knight" THEN knightly
             ELSE IF pt = "Pawn" THEN Abs(dx) = 1 /\ dy = -pawn_dir
             ELSE \/ pt \in {"Chancellor", "Archbishop", "Amazon", "Centaur", "RoyalCentaur"}
                     /\ knightly
                  \/ pt \in ortho_types /\ (dx = 0 \/ dy = 0)
                  \/ pt \in diag_types /\ Abs(dx) = Abs(dy) /\ Abs(dx) > 0

\* score_quiet at ply 0: no countermove and no continuation history there;
\* the main history is read by the kind of the piece.
score_quiet(p, g, searcher, m) ==
    IF moves_match(m, p.killer1) THEN searcher.sort_killer1
    ELSE IF moves_match(m, p.killer2) THEN searcher.sort_killer2
    ELSE searcher.default_sort_quiet
         + 2 * searcher.history[m.piece.piece_type]
         + (IF move_gives_check_fast(g, m) /\ see_ge(g, m, -75) THEN CHECK_BONUS ELSE 0)

\* score_evasion.
score_evasion(p, g, searcher, m) ==
    IF m.to \in DOMAIN g.board THEN EVASION_CAPTURE_BASE + score_capture(g, searcher, m)
    ELSE score_quiet(p, g, searcher, m)

\* sort_moves_by_score: highest score first.  sort_unstable_by leaves moves
\* of equal score in any order; here they keep the order they came in, and
\* that order is drawn in two ways.
RECURSIVE sort_moves_by_score(_)
sort_moves_by_score(moves) ==
    IF moves = <<>> THEN <<>>
    ELSE LET best == CHOOSE i \in 1..Len(moves) :
                        /\ \A j \in 1..Len(moves) : moves[j].score <= moves[i].score
                        /\ \A j \in 1..(i - 1) : moves[j].score < moves[i].score
         IN <<moves[best]>>
            \o sort_moves_by_score([j \in 1..(Len(moves) - 1) |->
                                      IF j < best THEN moves[j] ELSE moves[j + 1]])

\* The moves a generator made, in the Searcher's order, without the TT move
\* and the excluded move, each with its score.
scored_moves(p, g, searcher, generated, kind) ==
    LET listed == IF searcher.reversed THEN Reverse(SeqOfSet(generated))
                  ELSE SeqOfSet(generated)
        kept_at == {i \in 1..Len(listed) : /\ ~moves_match(listed[i], p.tt_move)
                                            /\ ~moves_match(listed[i], p.excluded_move)}
        kept == [j \in 1..Cardinality(kept_at) |->
                   listed[CHOOSE i \in kept_at : Cardinality({k \in kept_at : k <= i}) = j]]
        score(m) == CASE kind = "evasion" -> score_evasion(p, g, searcher, m)
                      [] kind = "capture" -> score_capture(g, searcher, m)
                      [] kind = "quiet" -> score_quiet(p, g, searcher, m)
    IN [i \in 1..Len(kept) |-> [m |-> kept[i], score |-> score(kept[i])]]

\* A swap that leaves the buffer as it was.
swap_moves_none(moves, i, j) == moves

\* moves.swap(i, j), the indices counted from 0.
swap_moves(moves, i, j) ==
    [k \in 1..Len(moves) |-> IF k = i + 1 THEN moves[j + 1]
                             ELSE IF k = j + 1 THEN moves[i + 1] ELSE moves[k]]

\* One pass of the loop of StagedMoveGen::next over self.stage: the
\* generator after the pass, the move returned (none for None or when the
\* loop goes on), and whether the loop goes on.  The three stages that
\* generate moves share the scoring loop.  must_escape_check is taken to
\* hold, so the evasion stages are entered whenever the side to move is in
\* check.
next_stage(p, g, searcher) ==
    LET return(q, m) == [gen |-> q, out |-> {m}, again |-> FALSE]
        none(q) == [gen |-> q, out |-> {}, again |-> FALSE]
        continue(q) == [gen |-> q, out |-> {}, again |-> TRUE]
        return_if_any(q, ok) == IF ok # {} THEN return(q, TheOne(ok)) ELSE continue(q)
        is_excluded(m) == moves_match(m, p.excluded_move)
        is_tt_move(m) == moves_match(m, p.tt_move)
        at_cur == p.moves[p.cur + 1]
        bump == [p EXCEPT !.cur = p.cur + 1]
        see_threshold == IF at_cur.score <= 0 THEN (-at_cur.score) \div 18
                         ELSE -(at_cur.score \div 18)
        init_kind == CASE p.stage = "EvasionInit" -> "evasion"
                       [] p.stage = "CaptureInit" -> "capture"
                       [] OTHER -> "quiet"
        with_generated(scored) ==
            CASE p.stage = "EvasionInit" ->
                   [p EXCEPT !.moves = sort_moves_by_score(p.moves \o scored),
                             !.cur = 0,
                             !.stage = "Evasion"]
              [] p.stage = "CaptureInit" ->
                   [p EXCEPT !.moves = sort_moves_by_score(p.moves \o scored),
                             !.end_captures = Len(p.moves) + Len(scored),
                             !.end_bad_captures = 0,
                             !.cur = 0,
                             !.stage = "GoodCapture"]
              [] OTHER ->
                   [p EXCEPT !.moves = p.moves \o sort_moves_by_score(scored),
                             !.end_generated = Len(p.moves) + Len(scored),
                             !.cur = Len(p.moves),
                             !.stage = "GoodQuiet"]
    IN IF p.stage \in {"EvasionInit", "CaptureInit"} \/ (p.stage = "QuietInit" /\ ~p.skip_quiets)
       THEN continue(with_generated(
                scored_moves(p, g, searcher, generated_moves(g, init_kind), init_kind)))
       ELSE
       CASE p.stage = "TTMove" ->
              return_if_any([p EXCEPT !.stage = IF is_in_check(g) THEN "EvasionInit"
                                                ELSE "CaptureInit"],
                            {m \in p.tt_move : ~is_excluded(m) /\ is_pseudo_legal(g, m)})
         [] p.stage = "Evasion" ->
              IF p.cur < Len(p.moves) THEN return(bump, at_cur.m)
              ELSE continue([p EXCEPT !.stage = "Done"])
         [] p.stage = "GoodCapture" ->
              IF p.cur < p.end_captures
              THEN IF static_exchange_eval_impl(g, at_cur.m) >= see_threshold
                   THEN return(bump, at_cur.m)
                   ELSE continue([p EXCEPT
                                    !.moves = swap_moves(p.moves, p.end_bad_captures, p.cur),
                                    !.end_bad_captures = p.end_bad_captures + 1,
                                    !.cur = p.cur + 1])
              ELSE continue([p EXCEPT !.stage = "Killer1"])
         [] p.stage = "Killer1" ->
              return_if_any([p EXCEPT !.stage = "Killer2"],
                            {k \in p.killer1 : /\ ~p.skip_quiets
                                               /\ ~is_tt_move(k)
                                               /\ ~is_excluded(k)
                                               /\ ~is_capture(g, k)
                                               /\ is_pseudo_legal(g, k)})
         [] p.stage = "Killer2" ->
              return_if_any([p EXCEPT !.stage = "QuietInit"],
                            {k \in p.killer2 : /\ ~p.skip_quiets
                                               /\ ~is_tt_move(k)
                                               /\ ~moves_match(k, p.killer1)
                                               /\ ~is_excluded(k)
                                               /\ ~is_capture(g, k)
                                               /\ is_pseudo_legal(g, k)})
         [] p.stage = "QuietInit" ->
              continue([p EXCEPT !.stage = "BadCapture"])
         [] p.stage = "GoodQuiet" ->
              IF p.skip_quiets THEN continue([p EXCEPT !.stage = "BadCapture"])
              ELSE IF p.cur < p.end_generated
              THEN IF at_cur.score > GOOD_QUIET_THRESHOLD THEN return(bump, at_cur.m)
                   ELSE continue(bump)
              ELSE continue([p EXCEPT !.cur = 0, !.stage = "BadCapture"])
         [] p.stage = "BadCapture" ->
              IF p.cur < p.end_bad_captures THEN return(bump, at_cur.m)
              ELSE continue([p EXCEPT !.cur = p.end_captures, !.stage = "BadQuiet"])
         [] p.stage = "BadQuiet" ->
              IF p.skip_quiets THEN none([p EXCEPT !.stage = "Done"])
              ELSE IF p.cur < p.end_generated
              THEN IF at_cur.score <= GOOD_QUIET_THRESHOLD THEN return(bump, at_cur.m)
                   ELSE continue(bump)
              ELSE continue([p EXCEPT !.stage = "Done"])
         [] OTHER -> none(p)

\* A next() that gives up after one pass of its loop: None whenever the
\* pass returns no move.
StagedMoveGen_next_one_pass(p, g, searcher) ==
    [gen |-> next_stage(p, g, searcher).gen, out |-> next_stage(p, g, searcher).out]

\* StagedMoveGen::next: the generator after the call, and what the call
\* returned (no move for None).
RECURSIVE StagedMoveGen_next(_, _, _)
RECURSIVE next_after(_, _, _)
next_after(r, g, searcher) ==
    IF r.again THEN StagedMoveGen_next(r.gen, g, searcher)
    ELSE [gen |-> r.gen, out |-> r.out]

StagedMoveGen_next(p, g, searcher) == next_after(next_stage(p, g, searcher), g, searcher)

\* ------------------------------------------------ positions for the picker

\* White to move: a castling move, a knight with a capture that wins a
\* bishop and two that lose the knight for a pawn, and a pawn.
PickGame ==
    [game |-> SetUp({<<<<5, 1>>, Piece("King", "White")>>,
                     <<<<8, 1>>, Piece("Rook", "White")>>,
                     <<<<3, 3>>, Piece("Knight", "White")>>,
                     <<<<1, 2>>, Piece("Pawn", "White")>>,
                     <<<<1, 4>>, Piece("Bishop", "Black")>>,
                     <<<<4, 5>>, Piece("Pawn", "Black")>>,
                     <<<<5, 4>>, Piece("Pawn", "Black")>>,
                     <<<<5, 6>>, Piece("Pawn", "Black")>>,
                     <<<<7, 6>>, Piece("King", "Black")>>},
                    {<<5, 1>>, <<8, 1>>, <<1, 2>>}, "White", TRUE),
     world |-> WorldBounds(1, 8, 1, 6)]

\* White to move and in check from a rook the knight can take or block.
PickCheckGame ==
    [game |-> SetUp({<<<<5, 1>>, Piece("King", "White")>>,
                     <<<<3, 3>>, Piece("Knight", "White")>>,
                     <<<<5, 4>>, Piece("Rook", "Black")>>,
                     <<<<8, 4>>, Piece("King", "Black")>>},
                    {}, "White", TRUE),
     world |-> WorldBounds(3, 8, 1, 4)]

PickScenarios == {PickGame, PickCheckGame}

\* The Searcher tables the picker reads at ply 0: the killers, the main
\* history by the kind of piece, the capture history, the tunable sort
\* scores, and the order in which the generators hand out their moves.
Searchers(killers) ==
    {[killer1 |-> k[1], killer2 |-> k[2],
      history |-> [t \in {"Pawn", "Knight", "Bishop", "Rook", "Queen", "King"} |->
                     IF t = "Pawn" THEN h ELSE 0],
      capture_history |-> 0,
      default_sort_quiet |-> 0,
      sort_killer1 |-> 900000,
      sort_killer2 |-> 800000,
      reversed |-> r] : k \in killers, h \in {0, -10000}, r \in BOOLEAN}

\* The moves a picker is handed as TT move, killers and excluded move: a
\* TT move is a generated move as the table gives it back, or a move of a
\* piece that is not on the board.
IsCastlingMove(m) == m.rook_coord # {}

SomeQuiet(legal, g, kind) ==
    LET quiets == {m \in legal : /\ ~takes_piece(g, m)
                                  /\ m.piece.piece_type = kind
                                  /\ ~IsCastlingMove(m)}
    IN IF quiets = {} THEN {} ELSE {CHOOSE m \in quiets : TRUE}

PickTTMoves(legal, g) ==
    {{}}
    \cup {to_move(TTMove_from_move(m)) :
             m \in {c \in legal : takes_piece(g, c) \/ IsCastlingMove(c)}
                   \cup SomeQuiet(legal, g, "Knight")}
    \cup {{[m EXCEPT !.piece = Piece("Rook", g.turn)]} : m \in SomeQuiet(legal, g, "Knight")}

PickKillers(legal, g) ==
    {<<{}, {}>>}
    \cup {<<{k}, {k}>> : k \in SomeQuiet(legal, g, "Knight")}
    \cup {<<{k1}, {k2}>> : k1 \in SomeQuiet(legal, g, "King"),
                           k2 \in SomeQuiet(legal, g, "Pawn")}

PickExcluded(legal, g) == {{}} \cup {{m} : m \in SomeQuiet(legal, g, "King")}

\* The pickers created for a position whose generated moves are legal.
PickersFor(legal, g) ==
    {[stage |-> "Made",
      gen |-> StagedMoveGen_new(tt_move, searcher, excluded),
      searcher |-> searcher,
      yielded |-> <<>>,
      finished |-> FALSE,
      skipped_in |-> "Never"] :
        tt_move \in PickTTMoves(legal, g), excluded \in PickExcluded(legal, g),
        searcher \in Searchers(PickKillers(legal, g))}

\* A StagedMoveGen created for the position, and nothing asked of it yet.
InitPick ==
    \E s \in PickScenarios :
        /\ game = s.game
        /\ world = s.world
        /\ line = <<>>
        /\ tt = TranspositionTable_new(1)
        /\ tt_ops = 0
        /\ see = NoSee
        /\ picker \in PickersFor(GameLegalMoves(s.game), s.game)

\* The picker once a call of next() has returned r.
noted(pk, r) ==
    [pk EXCEPT !.gen = r.gen,
               !.finished = (r.out = {}),
               !.yielded = IF r.out = {} THEN @
                           ELSE Append(@, [m |-> TheOne(r.out),
                                           stage |-> r.gen.stage,
                                           skip_quiets |-> pk.gen.skip_quiets])]

\* One call of next(), before or after it has returned None: the move it
\* returns is noted with the stage the generator is left in and with the
\* flag as it was.
DoNext ==
    /\ picker.stage = "Made"
    /\ picker' = noted(picker, StagedMoveGen_next(picker.gen, game, picker.searcher))
    /\ UNCHANGED <<game, world, line, tt, tt_ops, see>>

\* skip_quiet_moves(), at any time before next() has returned None.
DoSkipQuietMoves ==
    /\ picker.stage = "Made"
    /\ ~picker.finished
    /\ ~picker.gen.skip_quiets
    /\ picker' = [picker EXCEPT !.gen = skip_quiet_moves(@),
                                !.skipped_in = picker.gen.stage]
    /\ UNCHANGED <<game, world, line, tt, tt_ops, see>>

NextPick == DoNext \/ DoSkipQuietMoves

SpecPick == InitPick /\ [][NextPick]_vars


\* The moves next() has returned, and those it returned with the flag set.
YieldedMoves == {picker.yielded[i].m : i \in 1..Len(picker.yielded)}

YieldedAfterSkip == {y \in Range(picker.yielded) : y.skip_quiets}

\* The captures that failed the SEE test of the GoodCapture stage: the
\* front region of the buffer.
BadCaptures ==
    {picker.gen.moves[i].m : i \in 1..picker.gen.end_bad_captures}

PickerMade == picker.stage = "Made"

SkipCalled == PickerMade /\ picker.skipped_in # "Never"

\* The stage the generator is left in tells where a move came from: a
\* killer stage or one of the quiet stages.
FromKillerOrQuietStage(y) == y.stage \in {"Killer2", "QuietInit", "GoodQuiet", "BadQuiet"}

\* C22: after skip_quiet_moves() is called, next() yields no further killer
\* or quiet move, but it still yields every capture that failed the SEE test
\* in the GoodCapture stage before it returns None, whichever stage the
\* picker was in when the flag was set.
C22_SkipKeepsBadCaptures ==
    SkipCalled =>
        /\ \A y \in YieldedAfterSkip : ~FromKillerOrQuietStage(y)
        /\ picker.finished => BadCaptures \subseteq YieldedMoves

\* What holds of C22: no move comes from a killer stage or a quiet stage
\* once the flag is set.
C22_NoKillerOrQuietAfterSkip ==
    SkipCalled => \A y \in YieldedAfterSkip : ~FromKillerOrQuietStage(y)

\* The failed captures are all yielded when the flag is never set, and when
\* it is set with the generator already in the BadCapture or BadQuiet stage.
C22_BadCapturesWhenSkippedLate ==
    (PickerMade /\ picker.finished /\ picker.skipped_in \in {"Never", "BadCapture", "BadQuiet"})
        => BadCaptures \subseteq YieldedMoves

\* Set in any earlier stage of a position not in check, the flag loses every
\* failed capture.
C22_BadCapturesLostWhenSkippedEarly ==
    (PickerMade /\ picker.finished /\ ~is_in_check(game)
       /\ picker.skipped_in \in {"TTMove", "CaptureInit", "GoodCapture", "Killer1",
                                 "Killer2", "QuietInit", "GoodQuiet"})
        => BadCaptures \cap YieldedMoves = {}

\* The case of C22 is reached: next() has returned None after the flag was
\* set before the first call, and a capture that failed the SEE test was
\* never yielded.
C22_BadCaptureLost ==
    /\ SkipCalled /\ picker.finished
    /\ picker.skipped_in = "TTMove"
    /\ BadCaptures \ YieldedMoves # {}

\* With the flag set in the BadCapture stage the failed capture that is left
\* is yielded and no quiet move follows.
C22_BadCaptureKept ==
    /\ SkipCalled /\ picker.finished
    /\ picker.skipped_in = "BadCapture"
    /\ BadCaptures # {}
    /\ \E y \in YieldedAfterSkip : y.stage = "BadCapture"

\* In check the Evasion stage does not read the flag: quiet evasions are
\* yielded after it is set.
C22_QuietEvasionAfterSkip ==
    /\ SkipCalled
    /\ \E y \in YieldedAfterSkip : y.stage = "Evasion" /\ ~is_capture(game, y.m)


\* The moves of the call sequence so far that match in from, to and
\* promotion, as moves_match compares them.
SameMove(a, b) == a.from = b.from /\ a.to = b.to /\ a.promotion = b.promotion

YieldedTwice(i, j) ==
    /\ i < j
    /\ SameMove(picker.yielded[i].m, picker.yielded[j].m)

\* C23: over the lifetime of one StagedMoveGen, next() never yields the same
\* move (same from, to and promotion) twice: a move already yielded as the
\* TT move or as a killer is not yielded again from the capture, quiet or
\* evasion lists.
C23_NoMoveYieldedTwice ==
    PickerMade =>
        \A i, j \in 1..Len(picker.yielded) : ~YieldedTwice(i, j)

\* What holds of C23: a move is yielded twice only as a killer first and
\* from the quiet list afterwards; the TT move, the captures, the evasions
\* and the quiet moves that are no killers come once.
C23_OnlyKillersYieldedTwice ==
    PickerMade =>
        \A i, j \in 1..Len(picker.yielded) :
            YieldedTwice(i, j) =>
                /\ picker.yielded[i].stage \in {"Killer2", "QuietInit"}
                /\ picker.yielded[j].stage \in {"GoodQuiet", "BadQuiet"}

\* The TT move is never yielded a second time.
C23_TTMoveYieldedOnce ==
    PickerMade =>
        \A i, j \in 1..Len(picker.yielded) :
            (i # j /\ picker.yielded[i].stage \in {"CaptureInit", "EvasionInit"})
                => ~SameMove(picker.yielded[i].m, picker.yielded[j].m)

\* The cases of C23 are reached: a killer yielded in the Killer1 stage comes
\* again from the quiet list, and a TT move has been yielded with the lists
\* run to their end.
C23_KillerYieldedAgain ==
    /\ PickerMade
    /\ \E i, j \in 1..Len(picker.yielded) :
          /\ YieldedTwice(i, j)
          /\ picker.yielded[i].stage = "Killer2"
          /\ picker.yielded[j].stage = "GoodQuiet"

C23_TTMoveYielded ==
    /\ PickerMade /\ picker.finished /\ picker.skipped_in = "Never"
    /\ Len(picker.yielded) > 1
    /\ picker.yielded[1].stage = "CaptureInit"


\* The moves of the generators the picker draws from in the position: the
\* evasions when in check, the captures and the quiet moves otherwise.
GeneratorMoves(g) ==
    IF is_in_check(g) THEN get_evasion_moves(g)
    ELSE get_quiescence_captures(g) \cup get_quiet_moves(g)

IsYielded(m) == \E y \in YieldedMoves : SameMove(y, m)

NeverSkipped == PickerMade /\ picker.finished /\ picker.skipped_in = "Never"

\* The TT move equals a generated move in from, to and promotion, but is not
\* pseudo-legal.
TTMoveRefused ==
    \E t \in picker.gen.tt_move :
        /\ ~is_pseudo_legal(game, t)
        /\ \E m \in GeneratorMoves(game) : SameMove(m, t)

\* C24: when skip_quiet_moves() is never called, every move produced by the
\* capture and quiet generators (or by the evasion generator when in check),
\* other than the excluded move, is yielded by next() at least once before it
\* returns None, whatever tt_move was supplied, including a tt_move that
\* equals a generated move but fails is_pseudo_legal.
C24_EveryGeneratedMoveYielded ==
    NeverSkipped =>
        \A m \in GeneratorMoves(game) :
            ~moves_match(m, picker.gen.excluded_move) => IsYielded(m)

\* What holds of C24: every generated move but the excluded move and the
\* TT move is yielded, and so is a TT move that is pseudo-legal.
C24_EveryOtherGeneratedMoveYielded ==
    NeverSkipped =>
        \A m \in GeneratorMoves(game) :
            (~moves_match(m, picker.gen.excluded_move)
               /\ (moves_match(m, picker.gen.tt_move) => ~TTMoveRefused))
                => IsYielded(m)

\* A generated move that matches a refused TT move is never yielded.
C24_RefusedTTMoveNeverYielded ==
    (PickerMade /\ TTMoveRefused) =>
        \A m \in GeneratorMoves(game) : moves_match(m, picker.gen.tt_move) => ~IsYielded(m)

\* The cases of C24 are reached: the castling move was the TT move, which
\* comes back from the table without its rook_coord, and next() has returned
\* None without yielding it; and a stale TT move of another piece hides the
\* knight move it matches.
C24_CastlingTTMoveLost ==
    /\ NeverSkipped
    /\ \E m \in GeneratorMoves(game) :
          /\ IsCastlingMove(m)
          /\ picker.gen.tt_move = to_move(TTMove_from_move(m))
          /\ ~moves_match(m, picker.gen.excluded_move)
          /\ ~IsYielded(m)

C24_StaleTTMoveHidesMove ==
    /\ NeverSkipped /\ TTMoveRefused
    /\ \E t \in picker.gen.tt_move : t.piece.piece_type = "Rook"

\* With a pseudo-legal TT move every generated move has been yielded.
C24_AllYielded ==
    /\ NeverSkipped
    /\ picker.gen.tt_move # {} /\ ~TTMoveRefused
    /\ \A m \in GeneratorMoves(game) : IsYielded(m)


\* ----------------------------------------------- null move round trip

NullRoundTrip(g) == unmake_null_move(make_null_move(g))

\* C25: make_null_move followed by unmake_null_move restores the GameState
\* exactly, including the en passant state that was present before the null
\* move, the side to move, null_moves and hash_stack.
C25_NullMoveRoundTrip == NullRoundTrip(game) = game

\* What holds of C25: from a position without en passant state the round
\* trip restores everything; from any position it restores everything but
\* the en passant state and the hash that carries its key.
C25_NullMoveRoundTripWithoutEnPassant ==
    game.en_passant = {} => NullRoundTrip(game) = game

C25_NullMoveRoundTripButEnPassant ==
    [NullRoundTrip(game) EXCEPT !.en_passant = game.en_passant, !.hash = game.hash] = game

\* The case of C25 is reached: a pawn has just made its double step, and the
\* null move made and unmade leaves no en passant state.
C25_EnPassantLost ==
    /\ game.en_passant # {}
    /\ NullRoundTrip(game).en_passant = {}
    /\ NullRoundTrip(game).turn = game.turn
    /\ NullRoundTrip(game).null_moves = game.null_moves
    /\ NullRoundTrip(game).hash_stack = game.hash_stack

\* The same in the run: the null move that was made on a position with en
\* passant state has been unmade, and the state is not the one before it.
C25_UnmadeWithoutEnPassant ==
    /\ line = <<>>
    /\ game.en_passant = {}
    /\ game # PushedStart.game
    /\ [game EXCEPT !.en_passant = PushedStart.game.en_passant,
                    !.hash = PushedStart.game.hash] = PushedStart.game


\* ------------------------------------------------- what a probe may return

\* The slots of the key's bucket that hold the key: the written entries
\* whose key is the hash.
SlotsHolding(t, hash) ==
    LET bucket == bucket_at(t, bucket_index(t, hash))
    IN {i \in 1..ENTRIES_PER_BUCKET : bucket[i].key = hash /\ ~TTEntry_is_empty(bucket[i])}

\* The entry's score can be used at the depth and window asked for.
EntryUsable(entry, s, alpha, beta, depth) ==
    /\ entry.depth >= depth
    /\ BoundAllowsCutoff(TTEntry_flag(entry), s, alpha, beta)

\* What the probes of table t for the key return, at every window, depth
\* and move-rule count asked: nothing when no slot holds the key, else the
\* move of an entry holding it, with the entry's score when the entry is
\* usable and the sentinel when it is not.
ProbeFits(t, hash) ==
    \A w \in TTWindows, depth \in TTDepths \cup {0}, r50 \in TTRule50 :
        LET bucket == bucket_at(t, bucket_index(t, hash))
            held == SlotsHolding(t, hash)
            result == probe(t, hash, w[1], w[2], depth, TTPly, r50, RULE_LIMIT)
        IN /\ held = {} => result = {}
           /\ held # {} =>
                \E i \in held :
                   LET s == value_from_tt(bucket[i].score, TTPly, r50, RULE_LIMIT)
                   IN result = {[score |-> IF EntryUsable(bucket[i], s, w[1], w[2], depth)
                                           THEN s ELSE INFINITY + 1,
                                 best_move |-> TTEntry_best_move(bucket[i])]}
           /\ \A r \in result :
                 r.score # INFINITY + 1 =>
                    \E i \in held :
                       /\ r.score = value_from_tt(bucket[i].score, TTPly, r50, RULE_LIMIT)
                       /\ EntryUsable(bucket[i], r.score, w[1], w[2], depth)

\* C26: probe returns a score other than the sentinel INFINITY + 1 only from
\* a non-empty entry whose key equals the probed hash, whose stored depth is
\* >= the requested depth, and whose bound is Exact, or LowerBound with
\* score >= beta, or UpperBound with score <= alpha; on any other key match
\* it returns the sentinel together with the stored move, and it returns
\* None when no slot holds the key.  Checked for every key in the table as
\* it is, and for the key of one more store of any depth, bound and score.
C26_ProbeUsableOnlyFromFittingEntry ==
    \A hash \in TTKeys :
        /\ ProbeFits(tt, hash)
        /\ \A d \in TTDepths, B \in TTFlags, s \in TTScores :
              ProbeFits(store(tt, hash, d, B, s, {CastleMove}, TTPly), hash)

\* An entry is stored at depth 2 with an Exact bound: the probe at depth 2
\* returns its score, the probe at depth 257 the sentinel and the move, and
\* the probe for a key no slot holds returns nothing.
C26_Witness ==
    \E hash \in TTKeys, absent \in TTKeys :
        /\ SlotsHolding(tt, hash) # {}
        /\ SlotsHolding(tt, absent) = {}
        /\ probe(tt, hash, -100, 0, 2, 0, 0, RULE_LIMIT)
             = {[score |-> -120, best_move |-> {KnightMove}]}
        /\ probe(tt, hash, -100, 0, 257, 0, 0, RULE_LIMIT)
             = {[score |-> INFINITY + 1, best_move |-> {KnightMove}]}
        /\ probe(tt, absent, -100, 0, 2, 0, 0, RULE_LIMIT) = {}

\* A LowerBound entry below beta is stored: the probe returns the sentinel
\* and the move, whatever the depth asked for.
C26_BoundRefused ==
    \E hash \in TTKeys :
        /\ SlotsHolding(tt, hash) # {}
        /\ TTEntry_flag(bucket_at(tt, bucket_index(tt, hash))[MinOf(SlotsHolding(tt, hash))])
             = "LowerBound"
        /\ probe(tt, hash, -100, 0, 0, 0, 0, RULE_LIMIT)
             = {[score |-> INFINITY + 1, best_move |-> {KnightMove}]}


\* ------------------------------------------ a store for a key already held

\* The entry a store writes.
StoredEntry(t, hash, d, B, s, mv, ply) ==
    [key |-> hash, score |-> value_to_tt(s, ply), depth |-> d % 256,
     gen_bound |-> pack_gen_bound(t.generation, B),
     tt_move |-> IF mv = {} THEN TTMove_none ELSE TTMove_from_move(TheOne(mv))]

\* Table t with slot i of bucket idx holding the entry, and nothing else
\* changed.
OnlySlotChanged(t, after, idx, i, entry) ==
    /\ after.mask = t.mask /\ after.generation = t.generation
    /\ \A b \in DOMAIN t.buckets \cup DOMAIN after.buckets, j \in 1..ENTRIES_PER_BUCKET :
          bucket_at(after, b)[j] = IF b = idx /\ j = i THEN entry ELSE bucket_at(t, b)[j]

EmptySlots(t, idx) == {i \in 1..ENTRIES_PER_BUCKET : TTEntry_is_empty(bucket_at(t, idx)[i])}

\* The lowest replacement score among the entries of the bucket, and the
\* slots that have it.
LowestScore(t, idx) ==
    MinOf({calculate_replacement_score(bucket_at(t, idx)[i], t.generation) :
              i \in 1..ENTRIES_PER_BUCKET})

LowestSlots(t, idx) ==
    {i \in 1..ENTRIES_PER_BUCKET :
        calculate_replacement_score(bucket_at(t, idx)[i], t.generation) = LowestScore(t, idx)}

\* C28: a store for a key not present in its bucket writes into an empty
\* slot if the bucket has one; otherwise it overwrites only the slot with
\* the lowest replacement score, and only if the new entry's replacement
\* score is >= that score; no other slot and no other bucket is changed.
C28_StoreForAbsentKey ==
    \A hash \in TTKeys, d \in TTDepths, B \in TTFlags, s \in TTScores, mv \in TTMoves :
        SlotsHolding(tt, hash) = {} =>
           LET idx == bucket_index(tt, hash)
               entry == StoredEntry(tt, hash, d, B, s, mv, TTPly)
               after == store(tt, hash, d, B, s, mv, TTPly)
           IN IF EmptySlots(tt, idx) # {}
              THEN /\ \E i \in EmptySlots(tt, idx) : OnlySlotChanged(tt, after, idx, i, entry)
                   /\ after.used = tt.used + 1
              ELSE IF calculate_replacement_score(entry, tt.generation) >= LowestScore(tt, idx)
              THEN /\ \E i \in LowestSlots(tt, idx) : OnlySlotChanged(tt, after, idx, i, entry)
                   /\ after.used = tt.used
              ELSE after = tt

\* The bucket is full and its first slot is not the one of lowest score: a
\* store for a fourth key at depth 1 with an UpperBound is dropped, a store
\* at depth 2 takes the slot of lowest score and leaves the first alone.
C28_Witness ==
    LET idx == bucket_index(tt, 12288)
        after == store(tt, 12288, 2, "UpperBound", 100, {KnightMove}, TTPly)
    IN /\ SlotsHolding(tt, 12288) = {}
       /\ EmptySlots(tt, idx) = {}
       /\ 1 \notin LowestSlots(tt, idx)
       /\ store(tt, 12288, 1, "UpperBound", 100, {KnightMove}, TTPly) = tt
       /\ after # tt
       /\ bucket_at(after, idx)[1] = bucket_at(tt, idx)[1]
       /\ SlotsHolding(after, 12288) \subseteq LowestSlots(tt, idx)

\* A bucket with an empty slot takes a new key into it.
C28_EmptySlotTaken ==
    LET idx == bucket_index(tt, 12288)
        after == store(tt, 12288, 1, "UpperBound", 100, {KnightMove}, TTPly)
    IN /\ SlotsHolding(tt, 12288) = {}
       /\ EmptySlots(tt, idx) # {} /\ EmptySlots(tt, idx) # 1..ENTRIES_PER_BUCKET
       /\ SlotsHolding(after, 12288) \subseteq EmptySlots(tt, idx)
       /\ SlotsHolding(after, 12288) # {}


\* -------------------------------------------------------- castling at work

\* A royal centaur with a castling partner three squares away, and an
\* enemy king that bears on none of the squares of its rank.
CentaurGame ==
    [game |-> SetUp({<<<<5, 1>>, Piece("RoyalCentaur", "White")>>,
                     <<<<8, 1>>, Piece("Rook", "White")>>,
                     <<<<5, 3>>, Piece("King", "Black")>>},
                    {<<5, 1>>, <<8, 1>>}, "White", TRUE),
     world |-> WorldBounds(4, 8, 1, 3)]

CastleScenarios == {CastleGame, CheckGame, CentaurGame}

InitCastle ==
    \E s \in CastleScenarios :
        /\ game = s.game
        /\ world = s.world
        /\ line = <<>>
        /\ tt = TranspositionTable_new(1)
        /\ tt_ops = 0
        /\ see = NoSee
        /\ picker = NoPicker

SpecCastle == InitCastle /\ [][Next]_vars

\* The square the royal passes over.
PassedOver(m) == <<m.from[1] + (IF m.to[1] - m.from[1] > 0 THEN 1 ELSE -1), m.from[2]>>

\* make_move has taken the royal two squares toward the partner and the
\* partner from rook_coord to the square passed over, and rook_coord is
\* empty unless the royal stands on it.
CastledAsTold(g, m) ==
    LET rc == TheOne(m.rook_coord)
        b == make_move(g, m).game.board
    IN /\ m.to = <<m.from[1] + (IF rc[1] - m.from[1] > 0 THEN 2 ELSE -2), m.from[2]>>
       /\ get_piece(b, m.from[1], m.from[2]) = {}
       /\ get_piece(b, m.to[1], m.to[2]) = {g.board[m.from]}
       /\ get_piece(b, PassedOver(m)[1], PassedOver(m)[2]) = {g.board[rc]}
       /\ rc # m.to => get_piece(b, rc[1], rc[2]) = {}

\* undo_move has put the royal and the partner back.
UncastledAsTold(g, m) ==
    LET made == make_move(g, m)
    IN undo_move(made.game, m, made.undo).board = g.board

\* C29: for every generated castling move (a move with rook_coord set,
\* whether the royal is a King or a RoyalCentaur), make_move moves the royal
\* two squares toward the partner and relocates the partner from rook_coord
\* to the square the royal passed over, leaving rook_coord empty unless the
\* royal landed there; undo_move puts both pieces back.
C29_CastlingRelocatesPartner ==
    \A m \in CastlingMoves(game) : CastledAsTold(game, m) /\ UncastledAsTold(game, m)

\* The claim holds of the castling moves of a King.
C29_KingCastlingRelocatesPartner ==
    \A m \in CastlingMoves(game) :
        m.piece.piece_type = "King" => CastledAsTold(game, m) /\ UncastledAsTold(game, m)

\* The castling move of a RoyalCentaur moves the royal alone: the partner is
\* left on rook_coord and the square passed over is empty.
C29_RoyalCentaurCastlesAlone ==
    \A m \in CastlingMoves(game) :
        m.piece.piece_type = "RoyalCentaur" =>
           LET rc == TheOne(m.rook_coord)
               b == make_move(game, m).game.board
           IN /\ get_piece(b, m.to[1], m.to[2]) = {game.board[m.from]}
              /\ get_piece(b, rc[1], rc[2]) = {game.board[rc]}
              /\ get_piece(b, PassedOver(m)[1], PassedOver(m)[2]) = {}
              /\ UncastledAsTold(game, m)

C29_RoyalCentaurCastles ==
    \E m \in CastlingMoves(game) : m.piece.piece_type = "RoyalCentaur"

C29_KingCastles ==
    \E m \in CastlingMoves(game) : m.piece.piece_type = "King" /\ TheOne(m.rook_coord) # m.to

C29_KingLandsOnPartner ==
    \E m \in CastlingMoves(game) : m.piece.piece_type = "King" /\ TheOne(m.rook_coord) = m.to

\* The castling move has been made and undone in the run.
C29_CastledAndUndone ==
    /\ Len(line) > 0
    /\ line[Len(line)].kind = "move"
    /\ line[Len(line)].move.rook_coord # {}


\* ------------------------------------------- make_move_coords and make_move

\* The two states agree on the board, the special rights, the en passant
\* state, the clocks, the side to move, the material score, the piece counts
\* and the hash stack.
SameListedState(a, b) ==
    /\ a.board = b.board
    /\ a.special_rights = b.special_rights
    /\ a.en_passant = b.en_passant
    /\ a.halfmove_clock = b.halfmove_clock
    /\ a.fullmove_number = b.fullmove_number
    /\ a.turn = b.turn
    /\ a.material_score = b.material_score
    /\ a.white_piece_count = b.white_piece_count
    /\ a.black_piece_count = b.black_piece_count
    /\ a.hash_stack = b.hash_stack

CoordsAgrees(g, m) ==
    SameListedState(make_move_coords(g, m.from, m.to, m.promotion), make_move(g, m).game)

\* C30: for every position and every generated move m,
\* make_move_coords(m.from, m.to, m.promotion) reaches the same state as
\* make_move(m): same board (including the castling partner's new square),
\* special rights, en passant state, clocks, side to move, material score,
\* piece counts and hash stack.
C30_CoordsSameAsMakeMove ==
    \A m \in GameLegalMoves(game) : CoordsAgrees(game, m)

\* The two agree on every generated move that is not a castling move.
C30_CoordsSameButCastling ==
    \A m \in GameLegalMoves(game) : m.rook_coord = {} => CoordsAgrees(game, m)

\* On a castling move whose partner stands further than two squares away
\* the two differ in the special rights alone: make_move_coords removes the
\* right of the partner's square and make_move keeps it.
C30_CastlingDiffersInRights ==
    \A m \in CastlingMoves(game) :
        m.piece.piece_type = "King" /\ TheOne(m.rook_coord) # m.to =>
           LET c == make_move_coords(game, m.from, m.to, m.promotion)
               k == make_move(game, m).game
           IN /\ c.special_rights = k.special_rights \ m.rook_coord
              /\ (TheOne(m.rook_coord) \in game.special_rights) => ~CoordsAgrees(game, m)
              /\ SameListedState([c EXCEPT !.special_rights = k.special_rights], k)

\* A castling move onto the partner's square: make_move_coords takes the
\* partner off the board, make_move puts it on the square passed over.
C30_PartnerTakenOff ==
    \E m \in CastlingMoves(game) :
        /\ TheOne(m.rook_coord) = m.to
        /\ PassedOver(m) \notin DOMAIN make_move_coords(game, m.from, m.to, m.promotion).board
        /\ PassedOver(m) \in DOMAIN make_move(game, m).game.board

\* A promotion, an en passant capture and a capture are among the moves the
\* two agree on.
C30_PromotionAgrees ==
    \E m \in GameLegalMoves(game) : m.promotion # {} /\ CoordsAgrees(game, m)

C30_EnPassantAgrees ==
    \E m \in GameLegalMoves(game) :
        /\ m.piece.piece_type = "Pawn"
        /\ \E ep \in game.en_passant : ep.square = m.to
        /\ CoordsAgrees(game, m)

C30_CastlingKeepsRight ==
    \E m \in CastlingMoves(game) :
        /\ TheOne(m.rook_coord) \in make_move(game, m).game.special_rights
        /\ TheOne(m.rook_coord) \notin make_move_coords(game, m.from, m.to, m.promotion).special_rights


\* ------------------------------------------------- the order of the stages

\* MoveStage in the order of its declaration.
StageOrder ==
    <<"TTMove", "EvasionInit", "Evasion", "CaptureInit", "GoodCapture", "Killer1",
      "Killer2", "QuietInit", "GoodQuiet", "BadCapture", "BadQuiet", "Done">>

StageRank(stage) == CHOOSE i \in 1..Len(StageOrder) : StageOrder[i] = stage

StagesInCheck == {"TTMove", "EvasionInit", "Evasion", "Done"}

StagesOutOfCheck ==
    {"TTMove", "CaptureInit", "GoodCapture", "Killer1", "Killer2", "QuietInit",
     "GoodQuiet", "BadCapture", "BadQuiet", "Done"}

\* A royal piece of the side to move stands on an attacked square.
SideToMoveInCheck ==
    \E c \in DOMAIN game.board :
        /\ game.board[c].color = game.turn
        /\ game.board[c].piece_type \in {"King", "RoyalQueen", "RoyalCentaur"}
        /\ is_square_attacked(game.board, c, opponent(game.turn), TRUE)

\* The stages the next call of next() goes through, the one it starts in
\* first and the one it leaves the generator in last.
RECURSIVE StagePath(_, _, _)
StagePath(p, g, searcher) ==
    LET r == next_stage(p, g, searcher)
    IN IF r.again THEN <<p.stage>> \o StagePath(r.gen, g, searcher)
       ELSE <<p.stage, r.gen.stage>>

\* Where a yielded move came from, by the stage the generator was left in:
\* 1 the TT move, 2 a good capture, 3 a killer, 4 a good quiet, 5 a bad
\* capture, 6 a bad quiet, 0 an evasion.
YieldKind(y) ==
    CASE y.stage \in {"EvasionInit", "CaptureInit"} -> 1
      [] y.stage = "GoodCapture" -> 2
      [] y.stage \in {"Killer2", "QuietInit"} -> 3
      [] y.stage = "GoodQuiet" -> 4
      [] y.stage = "BadCapture" -> 5
      [] y.stage = "BadQuiet" -> 6
      [] OTHER -> 0

C31_EvasionsYielded ==
    /\ PickerMade /\ picker.finished /\ SideToMoveInCheck
    /\ Len(picker.yielded) > 2
    /\ picker.yielded[1].stage = "EvasionInit"


\* ------------------------------------------------------------------ C32
\* The SEE threshold of the GoodCapture stage, -score / 18 with the
\* division of i32, which rounds toward zero.
SeeThresholdOf(score) ==
    IF score <= 0 THEN (-score) \div 18 ELSE -(score \div 18)

\* The calls of next() that returned the move m.
YieldsOf(m) == {i \in 1..Len(picker.yielded) : picker.yielded[i].m = m}

\* The stage in which the capture m is due: GoodCapture when its SEE
\* reaches the threshold of its score, BadCapture otherwise.
CaptureStageOf(m) ==
    IF static_exchange_eval_impl(game, m)
          >= SeeThresholdOf(score_capture(game, picker.searcher, m))
    THEN "GoodCapture" ELSE "BadCapture"

\* The generated captures the claim is about.
ListedCaptures ==
    {m \in get_quiescence_captures(game) :
        /\ ~moves_match(m, picker.gen.tt_move)
        /\ ~moves_match(m, picker.gen.excluded_move)}

\* C32: when the side to move is not in check, skip_quiet_moves() was never
\* called and next() has returned None, each generated capture other than
\* the TT move and the excluded move has been yielded exactly once, in the
\* GoodCapture stage if its SEE is at least -score/18 and in the BadCapture
\* stage otherwise; before that it has been yielded at most once, and only
\* in that stage.
C32_EachCaptureOnceInItsStage ==
    (PickerMade /\ ~SideToMoveInCheck /\ picker.skipped_in = "Never") =>
        \A m \in ListedCaptures :
            /\ Cardinality(YieldsOf(m)) <= 1
            /\ \A i \in YieldsOf(m) : picker.yielded[i].stage = CaptureStageOf(m)
            /\ picker.finished => YieldsOf(m) # {}

\* The case of C32 is reached: next() has returned None, the flag was
\* never set, and captures were yielded in both stages.
C32_Witness ==
    /\ PickerMade /\ picker.finished /\ ~SideToMoveInCheck
    /\ picker.skipped_in = "Never"
    /\ \E a, b \in ListedCaptures :
          /\ CaptureStageOf(a) = "GoodCapture"
          /\ CaptureStageOf(b) = "BadCapture"
          /\ \E i, j \in 1..Len(picker.yielded) :
                /\ picker.yielded[i].m = a /\ picker.yielded[i].stage = "GoodCapture"
                /\ picker.yielded[j].m = b /\ picker.yielded[j].stage = "BadCapture"

\* A capture that is the TT move is outside the claim: it is reached
\* yielded once.
C32_CaptureIsTTMove ==
    /\ PickerMade /\ picker.finished /\ ~SideToMoveInCheck
    /\ picker.skipped_in = "Never"
    /\ \E m \in get_quiescence_captures(game) :
          /\ moves_match(m, picker.gen.tt_move)
          /\ Cardinality(YieldsOf(m)) = 1


\* ------------------------------------------------------------------ C33
\* The number of knight steps from one square to another on a knight-vector
\* ray, and the squares of the ray strictly between them.
RiderSteps(from, to) ==
    IF Abs(to[1] - from[1]) < Abs(to[2] - from[2]) THEN Abs(to[1] - from[1])
    ELSE Abs(to[2] - from[2])

OnRiderRay(from, to) ==
    LET k == RiderSteps(from, to)
    IN /\ k > 0
       /\ {Abs(to[1] - from[1]), Abs(to[2] - from[2])} = {k, 2 * k}

RiderPassed(from, to) ==
    LET k == RiderSteps(from, to)
    IN {<<from[1] + i * ((to[1] - from[1]) \div k),
          from[2] + i * ((to[2] - from[2]) \div k)>> : i \in 1..(k - 1)}

\* C33: every generated move of a Knightrider runs along a knight-vector
\* ray over empty squares only, and lands on an empty square or on a piece
\* that is neither of its colour nor a Void.
C33_KnightriderStopsAtFirstPiece ==
    \A m \in MovesOfKinds(game, {"Knightrider"}) :
        /\ OnRiderRay(m.from, m.to)
        /\ RiderPassed(m.from, m.to) \cap DOMAIN game.board = {}
        /\ m.to \in DOMAIN game.board
              => /\ game.board[m.to].color # m.piece.color
                 /\ game.board[m.to].piece_type # "Void"

\* What holds of C33: the moves of a Knightrider run along knight-vector
\* rays.
C33_KnightriderMovesOnRays ==
    \A m \in MovesOfKinds(game, {"Knightrider"}) : OnRiderRay(m.from, m.to)

\* A Knightrider has a generated move past a piece standing on its ray.
C33_RiderPassesPiece ==
    \E m \in MovesOfKinds(game, {"Knightrider"}) :
        RiderPassed(m.from, m.to) \cap DOMAIN game.board # {}

\* A Knightrider has a generated move over empty squares onto an empty
\* square as well.
C33_RiderMovesFreely ==
    \E m \in MovesOfKinds(game, {"Knightrider"}) :
        /\ RiderPassed(m.from, m.to) \cap DOMAIN game.board = {}
        /\ m.to \notin DOMAIN game.board


\* --------------------------------------------------- attacks on a square

\* The scan of is_square_attacked for Huygen attackers: with indices every
\* piece of the target's row and column is looked at, and a Huygen of the
\* attacker at a prime distance counts; without indices nothing is scanned.
huygen_scan(board, target, attacker_color, has_indices) ==
    /\ has_indices
    /\ \E c \in DOMAIN board :
          /\ (c[1] = target[1]) # (c[2] = target[2])
          /\ is_prime_i64((c[1] - target[1]) + (c[2] - target[2]))
          /\ board[c].color = attacker_color
          /\ board[c].piece_type = "Huygen"

\* The scan of is_square_attacked for Rose attackers: the rose moves of a
\* piece of the attacker's colour are generated from the target, and a Rose
\* of the attacker on one of their destinations counts.
rose_scan(board, target, attacker_color) ==
    \E m \in generate_rose_moves(board, target, Piece("Rose", attacker_color)) :
        \E p \in get_piece(board, m.to[1], m.to[2]) :
            p.color = attacker_color /\ p.piece_type = "Rose"

\* is_square_attacked with all of its scans.
is_square_attacked_by_any(board, target, attacker_color, has_indices) ==
    \/ is_square_attacked(board, target, attacker_color, has_indices)
    \/ huygen_scan(board, target, attacker_color, has_indices)
    \/ rose_scan(board, target, attacker_color)

\* The square asked about, and the squares a piece may stand on to attack
\* it: at one step, at the last step the fallback scan reaches and at the
\* first it does not along the eight lines, and on the rose circles.
AttackTarget == <<0, 0>>

SliderSquares ==
    {<<d[1] * n, d[2] * n>> : d \in OrthoDirs \cup DiagDirs,
                              n \in {1, RAY_FALLBACK_LIMIT, RAY_FALLBACK_LIMIT + 1}}

RoseSquares ==
    {m.to : m \in generate_rose_moves(EmptyBoard, AttackTarget, Piece("Rose", "White"))}

\* One attacker, a slider on a line through the target or a Rose on a rose
\* circle through it, and the target square empty or holding a pawn.
AttackersPlaced ==
    {<<c, Piece(t, color)>> : c \in SliderSquares, t \in {"Rook", "Bishop", "Queen"},
                              color \in {"White", "Black"}}
    \cup {<<c, Piece("Rose", color)>> : c \in RoseSquares, color \in {"White", "Black"}}

AttackPositions ==
    {SetUp({a} \cup occupant, {}, "White", TRUE) :
        a \in AttackersPlaced,
        occupant \in {{}, {<<AttackTarget, Piece("Pawn", "White")>>}}}

InitAttack ==
    \E g \in AttackPositions :
        /\ game = g
        /\ world = WorldBounds(-60, 60, -60, 60)
        /\ line = <<>>
        /\ tt = TranspositionTable_new(1)
        /\ tt_ops = 0
        /\ see = NoSee
        /\ picker = NoPicker

\* is_square_attacked asked once about the target, for either colour, with
\* the spatial indices or without.
DoIsSquareAttacked ==
    /\ Len(line) = 0
    /\ \E c \in {"White", "Black"}, indexed \in BOOLEAN :
          line' = Append(line, [kind |-> "attack",
                                target |-> AttackTarget,
                                color |-> c,
                                indexed |-> indexed,
                                attacked |-> is_square_attacked_by_any(game.board, AttackTarget,
                                                                       c, indexed)])
    /\ UNCHANGED <<game, world, tt, tt_ops, see, picker>>

NextAttack == DoIsSquareAttacked

SpecAttack == InitAttack /\ [][NextAttack]_vars

\* The queries answered so far.
AttackQueries == {line[i] : i \in 1..Len(line)}

\* The nearest piece from the target along d is a slider of the colour that
\* moves along d.
SliderNearestOn(board, target, d, color) ==
    \E c \in nearest_on_line(board, target[1], target[2], d[1], d[2]) :
        /\ board[c].color = color
        /\ board[c].piece_type \in (IF d \in OrthoDirs THEN ortho_types ELSE diag_types)

SliderDistance(board, target, d) ==
    LET c == TheOne(nearest_on_line(board, target[1], target[2], d[1], d[2]))
    IN IF Abs(c[1] - target[1]) > Abs(c[2] - target[2]) THEN Abs(c[1] - target[1])
       ELSE Abs(c[2] - target[2])

\* C34: with spatial indices supplied, is_square_attacked returns true
\* whenever the nearest piece from the target along a rank, file or diagonal
\* is a slider of the attacker's colour that moves along it, at any distance
\* and whether the target is occupied or not.
C34_NearestSliderAttacks ==
    \A q \in AttackQueries :
        (q.indexed /\ \E d \in OrthoDirs \cup DiagDirs :
                         SliderNearestOn(game.board, q.target, d, q.color))
            => q.attacked

\* What holds of C34: the slider is found when the target is occupied, or
\* when it is empty and the slider stands within the reach of the fallback
\* scan.
C34_NearestSliderAttacksWithinReach ==
    \A q \in AttackQueries :
        (q.indexed /\ \E d \in OrthoDirs \cup DiagDirs :
                         /\ SliderNearestOn(game.board, q.target, d, q.color)
                         /\ \/ q.target \in DOMAIN game.board
                            \/ SliderDistance(game.board, q.target, d) <= RAY_FALLBACK_LIMIT)
            => q.attacked

\* A slider one step beyond the fallback scan is missed from an empty
\* target and found from an occupied one, with the indices supplied.
C34_FarSliderMissed ==
    \E q \in AttackQueries :
        /\ q.indexed /\ ~q.attacked
        /\ q.target \notin DOMAIN game.board
        /\ \E d \in OrthoDirs \cup DiagDirs :
              /\ SliderNearestOn(game.board, q.target, d, q.color)
              /\ SliderDistance(game.board, q.target, d) = RAY_FALLBACK_LIMIT + 1

C34_FarSliderFound ==
    \E q \in AttackQueries :
        /\ q.indexed /\ q.attacked
        /\ q.target \in DOMAIN game.board
        /\ \E d \in OrthoDirs \cup DiagDirs :
              /\ SliderNearestOn(game.board, q.target, d, q.color)
              /\ SliderDistance(game.board, q.target, d) = RAY_FALLBACK_LIMIT + 1


\* ------------------------------------------------------------------ C35
\* The Roses of the colour that have a generated move onto the target.
RosesMovingOnto(board, target, color) ==
    {r \in DOMAIN board :
        /\ board[r] = Piece("Rose", color)
        /\ \E m \in generate_rose_moves(board, r, board[r]) : m.to = target}

\* C35: is_square_attacked returns true whenever a Rose of the attacker's
\* colour has a generated move onto the target.
C35_RoseAttackSeen ==
    \A q \in AttackQueries :
        RosesMovingOnto(game.board, q.target, q.color) # {} => q.attacked

\* What the scan does instead: no Rose is ever reported.  On a board whose
\* only other piece stands on the target, is_square_attacked returns false
\* for the Rose's colour.
C35_RoseNeverSeen ==
    \A q \in AttackQueries :
        (\E r \in DOMAIN game.board : game.board[r].piece_type = "Rose") => ~q.attacked

\* A Rose has a generated move onto the target, empty or holding an enemy
\* pawn, and is_square_attacked has returned false for its colour.
C35_RoseMoveUnseen ==
    \E q \in AttackQueries :
        /\ ~q.attacked
        /\ q.target \notin DOMAIN game.board
        /\ RosesMovingOnto(game.board, q.target, q.color) # {}

C35_RoseCaptureUnseen ==
    \E q \in AttackQueries :
        /\ ~q.attacked
        /\ q.target \in DOMAIN game.board
        /\ RosesMovingOnto(game.board, q.target, q.color) # {}


\* ------------------------------------------------------------------ C36
\* Scores on both sides of the mate thresholds, and the halfmove clocks a
\* probe is made with: that of the position, and clocks near the limit.
RoundTripScores ==
    {-INFINITY, -MATE_VALUE, -(MATE_VALUE - 5), -(MATE_VALUE - 120), -(MATE_SCORE + 1),
     -MATE_SCORE, -(MATE_SCORE - 1), -120, 0, 100, MATE_SCORE - 1, MATE_SCORE,
     MATE_SCORE + 1, MATE_VALUE - 120, MATE_VALUE - 5, MATE_VALUE, INFINITY}

RoundTripClocks == {game.halfmove_clock, 50, 95, 99, RULE_LIMIT}

RoundTrip(v, p, r50) == value_from_tt(value_to_tt(v, p), p, r50, RULE_LIMIT)

\* The 50-move downgrade applies to the score as stored: the plies to mate
\* from the position and the halfmove clock together pass the limit.
Downgraded(v, p, r50) ==
    LET kept == value_to_tt(v, p)
    IN \/ kept > MATE_SCORE /\ (MATE_VALUE - kept) + r50 > RULE_LIMIT
       \/ kept < -MATE_SCORE /\ (MATE_VALUE + kept) + r50 > RULE_LIMIT

\* C36: for every score v and ply p, value_from_tt(value_to_tt(v, p), p,
\* rule50, limit) is v unless the 50-move downgrade applies; a score with
\* |v| <= MATE_SCORE passes through both functions unchanged; and a mate
\* score out of the move rule's reach comes back as a score of the same
\* sign that is not a mate score.
C36_ValueRoundTrip ==
    \A v \in RoundTripScores, p \in 0..TTPly, r50 \in RoundTripClocks :
        /\ ~Downgraded(v, p, r50) => RoundTrip(v, p, r50) = v
        /\ Abs(v) <= MATE_SCORE =>
              /\ value_to_tt(v, p) = v
              /\ value_from_tt(v, p, r50, RULE_LIMIT) = v
              /\ ~Downgraded(v, p, r50)
        /\ Downgraded(v, p, r50) =>
              /\ Abs(v) > MATE_SCORE
              /\ Abs(RoundTrip(v, p, r50)) <= MATE_SCORE
              /\ (RoundTrip(v, p, r50) > 0) = (v > 0)
              /\ (RoundTrip(v, p, r50) < 0) = (v < 0)

\* The cases of C36 happen for the scores of a table that has been written
\* to: a mate score stored at a ply above 0 comes back as it was with the
\* clock at 0 and is downgraded with the clock at 99, on either side.
C36_Witness ==
    /\ tt.used > 0
    /\ \E v \in RoundTripScores, p \in 1..TTPly :
          /\ v > MATE_SCORE /\ value_to_tt(v, p) # v
          /\ RoundTrip(v, p, 0) = v /\ RoundTrip(-v, p, 0) = -v
          /\ Downgraded(v, p, 99) /\ RoundTrip(v, p, 99) = MATE_SCORE - 1
          /\ Downgraded(-v, p, 99) /\ RoundTrip(-v, p, 99) = -MATE_SCORE + 1


\* ------------------------------------------------------------------ C37
\* The slots of bucket idx that hold an entry.
FilledSlots(t, idx) ==
    {i \in 1..ENTRIES_PER_BUCKET : ~TTEntry_is_empty(bucket_at(t, idx)[i])}

\* No bucket of the table holds two entries with the same key.
NoKeyTwice(t) ==
    \A idx \in DOMAIN t.buckets :
        \A i, j \in FilledSlots(t, idx) :
            bucket_at(t, idx)[i].key = bucket_at(t, idx)[j].key => i = j

\* The empty slots of every bucket come after its entries.
EmptySlotsLast(t) ==
    \A idx \in DOMAIN t.buckets :
        \A i \in FilledSlots(t, idx) : \A j \in 1..i : j \in FilledSlots(t, idx)

\* C37: after any sequence of store, increment_age and clear no bucket
\* contains two non-empty entries with the same key, key 0 included, which
\* is the key field of an empty slot; and one more store, increment_age or
\* clear keeps it so.
C37_NoKeyTwiceInBucket ==
    /\ NoKeyTwice(tt)
    /\ EmptySlotsLast(tt)
    /\ NoKeyTwice(increment_age(tt))
    /\ NoKeyTwice(clear(tt))
    /\ \A hash \in TTKeys, d \in TTDepths, B \in TTFlags :
          LET after == store(tt, hash, d, B, 100, {}, TTPly)
          IN NoKeyTwice(after) /\ EmptySlotsLast(after)

\* The case of C37 is reached: a bucket holds an entry with key 0 behind an
\* entry with another key and before an empty slot, and a further store of
\* key 0 finds that entry and not the empty slot.
C37_Witness ==
    /\ \E i \in FilledSlots(tt, 0) :
          /\ i > 1
          /\ bucket_at(tt, 0)[i].key = 0
          /\ FilledSlots(tt, 0) # 1..ENTRIES_PER_BUCKET
    /\ FilledSlots(store(tt, 0, 2, "Exact", 100, {}, TTPly), 0) = FilledSlots(tt, 0)

\* ------------------------------------------------------------------ C38
\* capacity() and used_entries().
capacity(t) == (t.mask + 1) * ENTRIES_PER_BUCKET

used_entries(t) == t.used

\* The number of non-empty slots of the table.
FilledCount(t) ==
    Cardinality({<<idx, i>> \in (DOMAIN t.buckets) \X (1..ENTRIES_PER_BUCKET) :
                    i \in FilledSlots(t, idx)})

UsedIsFilled(t) == used_entries(t) = FilledCount(t) /\ used_entries(t) <= capacity(t)

\* C38: after any sequence of store, increment_age and clear, used_entries()
\* is the number of non-empty slots of the table and is at most capacity();
\* and one more store, increment_age or clear keeps it so.
C38_UsedCountsFilledSlots ==
    /\ UsedIsFilled(tt)
    /\ UsedIsFilled(increment_age(tt))
    /\ UsedIsFilled(clear(tt))
    /\ \A hash \in TTKeys, d \in TTDepths, B \in TTFlags :
          UsedIsFilled(store(tt, hash, d, B, 100, {}, TTPly))

\* The cases of C38 are reached: a store into an empty slot has counted, a
\* store over an entry has not, for key 0 as for other keys.
C38_Witness ==
    /\ used_entries(tt) = 2
    /\ \E i \in FilledSlots(tt, 0) : bucket_at(tt, 0)[i].key = 0
    /\ used_entries(store(tt, 0, 2, "Exact", 100, {}, TTPly)) = 2
    /\ used_entries(store(tt, 8192, 2, "Exact", 100, {}, TTPly)) = 3

C38_FullBucket ==
    /\ used_entries(tt) = ENTRIES_PER_BUCKET
    /\ FilledSlots(tt, 0) = 1..ENTRIES_PER_BUCKET
    /\ used_entries(store(tt, 12288, 2, "Exact", 100, {}, TTPly)) = ENTRIES_PER_BUCKET
    /\ bucket_at(store(tt, 12288, 2, "Exact", 100, {}, TTPly), 0) # bucket_at(tt, 0)

C38_Cleared ==
    /\ tt_ops > 1
    /\ used_entries(tt) = 0
    /\ tt.buckets = [i \in {} |-> TTBucket_empty]


\* ------------------------------------------------------------------ C39
\* A call of next() changes the state exactly as long as next() has not
\* returned None: that is when <<DoNext>>_vars is enabled.
NextCallPending == noted(picker, StagedMoveGen_next(picker.gen, game, picker.searcher)) # picker

C39_PendingUntilNone == PickerMade => (NextCallPending <=> ~picker.finished)

\* The caller goes on calling next() until it has returned None: weak
\* fairness of DoNext, with ENABLED <<DoNext>>_vars written as the state
\* predicate it amounts to.
SpecPickFair == SpecPick /\ ([]<>(picker.finished) \/ []<><<DoNext>>_vars)

\* The moves the generators hand to the picker for the position.
GeneratedCount == Cardinality(get_evasion_moves(game) \cup GameLegalMoves(game))

\* C39: for a fixed position, repeated calls of next() return None after
\* finitely many yielded moves, and once next() has returned None every
\* later call returns None as well.
C39_NextEndsAndStaysEnded ==
    /\ <>(picker.finished)
    /\ [](picker.finished => [](picker.finished))

\* The state side of C39: once next() has returned None the generator is in
\* the Done stage, where a further call returns None and leaves it as it
\* is; and the moves yielded are never more than the generated moves, the
\* TT move and the two killers.
C39_DoneIsFinal ==
    /\ picker.finished =>
          /\ picker.gen.stage = "Done"
          /\ StagedMoveGen_next(picker.gen, game, picker.searcher)
                = [gen |-> picker.gen, out |-> {}]
    /\ Len(picker.yielded) <= GeneratedCount + 3

\* The case of C39 is reached: next() has returned moves and then None, and
\* a further call returns None, in check and out of check.
C39_Witness ==
    /\ picker.finished /\ ~SideToMoveInCheck
    /\ Len(picker.yielded) > 3
    /\ StagedMoveGen_next(picker.gen, game, picker.searcher).out = {}

C39_EndedInCheck ==
    /\ picker.finished /\ SideToMoveInCheck
    /\ Len(picker.yielded) > 1
    /\ StagedMoveGen_next(picker.gen, game, picker.searcher).out = {}

\* next() returns None on its first call when the flag is set at once and
\* nothing passes the capture stage.
C39_EndedBySkip ==
    /\ picker.finished /\ picker.skipped_in # "Never"
    /\ picker.gen.skip_quiets


\* -------------------------------------------------------- mating material

\* Most pieces of one kind on a board of the material specification.
MaxSameKind == 4

MaterialKinds ==
    {"Queen", "Rook", "Bishop", "Knight", "Chancellor", "Archbishop", "Hawk", "Guard",
     "Pawn", "Amazon", "Knightrider", "Huygen"}

\* White material of one kind on the first rank, alone or with one or two
\* pieces of a second kind on squares of one colour of the second rank, and
\* the kings.
MaterialPlaced ==
    {{<<<<x, 1>>, Piece(first, "White")>> : x \in 1..a}
     \cup {<<<<2 * x, 2>>, Piece(second[1], "White")>> : x \in 1..second[2]} :
        first \in MaterialKinds, a \in 1..MaxSameKind,
        second \in MaterialKinds \X (0..2)}

MaterialPositions ==
    {SetUp(placed \cup {<<<<1, 4>>, Piece("King", "White")>>,
                        <<<<5, 8>>, Piece("King", "Black")>>},
           {}, "White", TRUE) : placed \in MaterialPlaced}

InitMaterial ==
    \E g \in MaterialPositions :
        /\ game = g
        /\ world = WorldBounds(1, 8, 1, 8)
        /\ line = <<>>
        /\ tt = TranspositionTable_new(1)
        /\ tt_ops = 0
        /\ see = NoSee
        /\ picker = NoPicker

\* has_sufficient_mating_material asked once for a colour, with or without
\* its king counted as helping.
DoHasSufficientMatingMaterial ==
    /\ Len(line) = 0
    /\ \E color \in {"White", "Black"}, has_our_king \in BOOLEAN :
          line' = Append(line, [kind |-> "material",
                                color |-> color,
                                has_our_king |-> has_our_king,
                                sufficient |-> has_sufficient_mating_material(game.board, color,
                                                                              has_our_king)])
    /\ UNCHANGED <<game, world, tt, tt_ops, see, picker>>

NextMaterial == DoHasSufficientMatingMaterial

SpecMaterial == InitMaterial /\ [][NextMaterial]_vars

MaterialQueries == {line[i] : i \in 1..Len(line)}

\* C40: for every board and colour, material that has_sufficient_mating_material
\* finds sufficient without the side's king it finds sufficient with the
\* king as well.
C40_KingKeepsMaterialSufficient ==
    \A q \in MaterialQueries :
        (~q.has_our_king /\ q.sufficient)
            => has_sufficient_mating_material(game.board, q.color, TRUE)

\* The side has three Knightriders or four Huygens, which alone make its
\* material sufficient without the king.
ManyRiders(board, color) ==
    \/ Cardinality(squares_of(board, color, {"Knightrider"})) >= 3
    \/ Cardinality(squares_of(board, color, {"Huygen"})) >= 4

\* What holds of C40: the king keeps sufficient material sufficient for a
\* side with fewer than three Knightriders and fewer than four Huygens.
C40_KingKeepsSufficientButRiders ==
    \A q \in MaterialQueries :
        (~q.has_our_king /\ q.sufficient /\ ~ManyRiders(game.board, q.color))
            => has_sufficient_mating_material(game.board, q.color, TRUE)

\* Four Huygens, and three Knightriders with two knights, are found
\* sufficient without the king and insufficient with it; queen and rook are
\* sufficient either way.
C40_HuygensLostWithKing ==
    \E q \in MaterialQueries :
        /\ ~q.has_our_king /\ q.sufficient
        /\ Cardinality(squares_of(game.board, q.color, {"Huygen"})) = 4
        /\ ~has_sufficient_mating_material(game.board, q.color, TRUE)

C40_KnightridersLostWithKing ==
    \E q \in MaterialQueries :
        /\ ~q.has_our_king /\ q.sufficient
        /\ Cardinality(squares_of(game.board, q.color, {"Knightrider"})) = 3
        /\ Cardinality(squares_of(game.board, q.color, {"Knight"})) = 2
        /\ ~has_sufficient_mating_material(game.board, q.color, TRUE)

\* Three Knightriders and a queen are found insufficient with the king too.
C40_QueenAndRidersLostWithKing ==
    \E q \in MaterialQueries :
        /\ ~q.has_our_king /\ q.sufficient
        /\ Cardinality(squares_of(game.board, q.color, {"Knightrider"})) = 3
        /\ Cardinality(squares_of(game.board, q.color, {"Queen"})) = 1
        /\ ~has_sufficient_mating_material(game.board, q.color, TRUE)

C40_QueenAndRookKept ==
    \E q \in MaterialQueries :
        /\ ~q.has_our_king /\ q.sufficient
        /\ squares_of(game.board, q.color, {"Queen"}) # {}
        /\ squares_of(game.board, q.color, {"Rook"}) # {}
        /\ has_sufficient_mating_material(game.board, q.color, TRUE)

====
